---- MODULE Spec2Model ----
(***************************************************************************)
(* A model of the AWSL core: lexer, recursive-descent parser, chained      *)
(* environments and the tree-walking evaluator.                            *)
(*                                                                         *)
(* Every recursive Go function is a RECURSIVE operator that threads the    *)
(* mutable state it works on (the evaluator's heap of environment frames   *)
(* and its output sink; the parser's lexer, token buffer and error list)   *)
(* through its result.  The loops that the claims observe iteration by     *)
(* iteration (evalProgram, ParseProgram, repeated NextToken calls) are     *)
(* actions of a state machine.                                             *)
(***************************************************************************)
EXTENDS Integers, Sequences, FiniteSets, TLC

VARIABLES
    mode,       \* which entry point this behaviour exercises
    program,    \* eval: the ast.Program handed to Eval
    idx,        \* eval: index of the next statement of evalProgram's loop
    phase,      \* eval: "eval" while evalProgram loops, "done" once it returned
    es,         \* eval: evaluator state (heap, stdout, result, history)
    frames,     \* env: the environment frames allocated so far
    last,       \* env: the last Environment call, its arguments and the heap before it
    input,      \* lex, parse: the source text, a sequence of characters
    lx,         \* lex: the Lexer
    toks,       \* lex: the tokens NextToken returned so far
    parser      \* parse: the Parser (with its Lexer) and its history

vars == <<mode, program, idx, phase, es, frames, last, input, lx, toks, parser>>

evalVars == <<program, idx, phase, es>>
envVars == <<frames, last>>
lexVars == <<lx, toks>>

(***************************************************************************)
(* Runtime values (internal/eval/object.go)                                *)
(***************************************************************************)
INTEGER_OBJ == "INTEGER"
FLOAT_OBJ == "FLOAT"
STRING_OBJ == "STRING"
BOOLEAN_OBJ == "BOOLEAN"
NULL_OBJ == "NULL"
ERROR_OBJ == "ERROR"
BUILTIN_OBJ == "BUILTIN"
LIST_OBJ == "LIST"
FUNCTION_OBJ == "FUNCTION"
RETURN_VALUE_OBJ == "RETURN_VALUE"

\* The absent object (a Go nil) and the absent history entry.
None == [t |-> "NONE"]

TRUE_ == [t |-> BOOLEAN_OBJ, b |-> TRUE]
FALSE_ == [t |-> BOOLEAN_OBJ, b |-> FALSE]
NULL == [t |-> NULL_OBJ]

Integer(v) == [t |-> INTEGER_OBJ, i |-> v]

RECURSIVE Gcd(_, _)
Gcd(a, b) == IF b = 0 THEN a ELSE Gcd(b, a % b)

Abs(n) == IF n < 0 THEN -n ELSE n

\* A float64 is modelled by the exact fraction num/den in lowest terms
\* (den > 0): exact for the small literals the model evaluates.
Float(n, d) ==
    LET g == Gcd(Abs(n), Abs(d))
        s == IF d < 0 THEN -1 ELSE 1
    IN [t |-> FLOAT_OBJ, num |-> (s * n) \div g, den |-> (s * d) \div g]

String(s) == [t |-> STRING_OBJ, s |-> s]
Builtin(name) == [t |-> BUILTIN_OBJ, name |-> name]
List(id, elems) == [t |-> LIST_OBJ, id |-> id, elems |-> elems]
Function(id, params, body, env) ==
    [t |-> FUNCTION_OBJ, id |-> id, params |-> params, body |-> body, env |-> env]
ReturnValue(v) == [t |-> RETURN_VALUE_OBJ, value |-> v]
Error(id, msg, line, column) ==
    [t |-> ERROR_OBJ, id |-> id, msg |-> msg, line |-> line, column |-> column]

Type(obj) == obj.t

RECURSIVE JoinStrings(_, _)
JoinStrings(ss, sep) ==
    IF Len(ss) = 0 THEN ""
    ELSE IF Len(ss) = 1 THEN ss[1]
    ELSE ss[1] \o sep \o JoinStrings(Tail(ss), sep)

RECURSIVE Inspect(_)
Inspect(obj) ==
    CASE obj.t = INTEGER_OBJ -> ToString(obj.i)
      [] obj.t = FLOAT_OBJ ->
            IF obj.den = 1 THEN ToString(obj.num)
            ELSE ToString(obj.num) \o "/" \o ToString(obj.den)
      [] obj.t = STRING_OBJ -> obj.s
      [] obj.t = BOOLEAN_OBJ -> IF obj.b THEN "true" ELSE "false"
      [] obj.t = NULL_OBJ -> "null"
      [] obj.t = ERROR_OBJ ->
            "error at line " \o ToString(obj.line) \o ", column "
                \o ToString(obj.column) \o ": " \o obj.msg
      [] obj.t = BUILTIN_OBJ -> "builtin:" \o obj.name
      [] obj.t = LIST_OBJ ->
            "[" \o JoinStrings([k \in 1..Len(obj.elems) |-> Inspect(obj.elems[k])], ", ") \o "]"
      [] obj.t = FUNCTION_OBJ ->
            "fn(" \o JoinStrings([k \in 1..Len(obj.params) |-> obj.params[k].value], ", ")
                \o ") {...}"
      [] obj.t = RETURN_VALUE_OBJ -> Inspect(obj.value)

(***************************************************************************)
(* Environments (internal/eval/env.go).  The heap is the sequence of all   *)
(* frames ever allocated; a *Environment is an index into it, 0 is nil.    *)
(***************************************************************************)
EmptyStore == [n \in {} |-> None]

Frame(outer) == [store |-> EmptyStore, outer |-> outer]

\* NewEnvironment: one frame without an outer frame.
NewEnvironment == <<Frame(0)>>

\* NewEnclosedEnvironment: the heap with one more frame; the new frame is
\* the last one.
NewEnclosedEnvironment(heap, outer) == Append(heap, Frame(outer))

Bound(heap, e, name) == name \in DOMAIN heap[e].store

StoreSet(heap, e, name, val) ==
    [heap EXCEPT ![e].store =
        [n \in (DOMAIN heap[e].store) \cup {name} |->
            IF n = name THEN val ELSE heap[e].store[n]]]

RECURSIVE Get(_, _, _)
Get(heap, e, name) ==
    IF ~Bound(heap, e, name) /\ heap[e].outer # 0
    THEN Get(heap, heap[e].outer, name)
    ELSE IF Bound(heap, e, name)
         THEN [obj |-> heap[e].store[name], ok |-> TRUE]
         ELSE [obj |-> None, ok |-> FALSE]

RECURSIVE Has(_, _, _)
Has(heap, e, name) ==
    IF Bound(heap, e, name) THEN TRUE
    ELSE IF heap[e].outer # 0 THEN Has(heap, heap[e].outer, name)
    ELSE FALSE

RECURSIVE Set(_, _, _, _)
\* A Set that always writes its own frame and so shadows an outer binding.
SetShadowing(heap, e, name, val) == StoreSet(heap, e, name, val)

Set(heap, e, name, val) ==
    IF Bound(heap, e, name) THEN StoreSet(heap, e, name, val)
    ELSE IF heap[e].outer # 0 /\ Has(heap, heap[e].outer, name)
         THEN Set(heap, heap[e].outer, name, val)
    ELSE StoreSet(heap, e, name, val)

\* A SetLocal that looks for an existing binding along the chain, as Set does.
SetLocalNearest(heap, e, name, val) == Set(heap, e, name, val)

SetLocal(heap, e, name, val) == StoreSet(heap, e, name, val)

(***************************************************************************)
(* Tokens (internal/token/token.go) and AST nodes (internal/ast/ast.go).   *)
(* A node is a record: k names the Go type, tok is its Token field.  The   *)
(* Value field is called ivalue, bvalue or rvalue where it is no string.   *)
(***************************************************************************)
Token(type, literal, line, column) ==
    [type |-> type, literal |-> literal, line |-> line, column |-> column]

Nil == [k |-> "nil"]

ExpressionStatement(tok, expr) == [k |-> "ExpressionStatement", tok |-> tok, expr |-> expr]
AssignmentStatement(tok, name, value) ==
    [k |-> "AssignmentStatement", tok |-> tok, name |-> name, value |-> value]
BlockStatement(tok, stmts) == [k |-> "BlockStatement", tok |-> tok, stmts |-> stmts]
IfStatement(tok, cond, cons, alt) ==
    [k |-> "IfStatement", tok |-> tok, cond |-> cond, cons |-> cons, alt |-> alt]
ForStatement(tok, iterator, iterable, body) ==
    [k |-> "ForStatement", tok |-> tok, iterator |-> iterator, iterable |-> iterable,
     body |-> body]
ReturnStatement(tok, value) == [k |-> "ReturnStatement", tok |-> tok, rvalue |-> value]
FunctionDeclaration(tok, name, params, body) ==
    [k |-> "FunctionDeclaration", tok |-> tok, name |-> name, params |-> params,
     body |-> body]
ContextStatement(tok, value) == [k |-> "ContextStatement", tok |-> tok, value |-> value]

Identifier(tok, value) == [k |-> "Identifier", tok |-> tok, value |-> value]
IntegerLiteral(tok, value) == [k |-> "IntegerLiteral", tok |-> tok, ivalue |-> value]
FloatLiteral(tok, num, den) == [k |-> "FloatLiteral", tok |-> tok, num |-> num, den |-> den]
StringLiteral(tok, value) == [k |-> "StringLiteral", tok |-> tok, value |-> value]
BooleanLiteral(tok, value) == [k |-> "BooleanLiteral", tok |-> tok, bvalue |-> value]
NullLiteral(tok) == [k |-> "NullLiteral", tok |-> tok]
PrefixExpression(tok, operator, right) ==
    [k |-> "PrefixExpression", tok |-> tok, operator |-> operator, right |-> right]
InfixExpression(tok, left, operator, right) ==
    [k |-> "InfixExpression", tok |-> tok, left |-> left, operator |-> operator,
     right |-> right]
CallExpression(tok, function, arguments) ==
    [k |-> "CallExpression", tok |-> tok, function |-> function, arguments |-> arguments]
Argument(name, value) == [name |-> name, value |-> value]
IndexExpression(tok, left, index) ==
    [k |-> "IndexExpression", tok |-> tok, left |-> left, index |-> index]
MemberExpression(tok, object, member) ==
    [k |-> "MemberExpression", tok |-> tok, object |-> object, member |-> member]
PipeExpression(tok, left, format) ==
    [k |-> "PipeExpression", tok |-> tok, left |-> left, format |-> format]
ListLiteral(tok, elements) == [k |-> "ListLiteral", tok |-> tok, elements |-> elements]
ObjectLiteral(tok, pairs) == [k |-> "ObjectLiteral", tok |-> tok, pairs |-> pairs]
ObjectPair(key, value) == [key |-> key, value |-> value]
GroupedExpression(tok, expr) == [k |-> "GroupedExpression", tok |-> tok, expr |-> expr]

Position(line, column) == [line |-> line, column |-> column]

\* Node.String() of the expressions made of operators, names and literals,
\* and of the statement that wraps one.
RECURSIVE NodeString(_)
NodeString(node) ==
    CASE node.k = "ExpressionStatement" ->
            IF node.expr # Nil THEN NodeString(node.expr) ELSE ""
      [] node.k = "InfixExpression" ->
            "(" \o NodeString(node.left) \o " " \o node.operator \o " "
                \o NodeString(node.right) \o ")"
      [] node.k = "PrefixExpression" ->
            "(" \o node.operator \o NodeString(node.right) \o ")"
      [] node.k = "GroupedExpression" -> "(" \o NodeString(node.expr) \o ")"
      [] node.k = "Identifier" -> node.value
      [] node.k = "StringLiteral" -> "\"" \o node.value \o "\""
      [] node.k = "NullLiteral" -> "null"
      [] node.k \in {"IntegerLiteral", "FloatLiteral", "BooleanLiteral"} ->
            node.tok.literal

\* Node.Pos(): the token's position, except for the nodes that delegate to
\* their left operand.
RECURSIVE Pos(_)
Pos(node) ==
    CASE node.k = "InfixExpression" -> Pos(node.left)
      [] node.k = "CallExpression" -> Pos(node.function)
      [] node.k = "IndexExpression" -> Pos(node.left)
      [] node.k = "MemberExpression" -> Pos(node.object)
      [] node.k = "PipeExpression" -> Pos(node.left)
      [] OTHER -> Position(node.tok.line, node.tok.column)

\* The %T rendering of a node in "unknown node type: %T".
GoTypeName(node) == "*ast." \o node.k

(***************************************************************************)
(* The evaluator (internal/eval/eval.go).                                  *)
(*                                                                         *)
(* An evaluator state st holds what an evaluation reads and writes:        *)
(*   heap      the environment frames                                      *)
(*   out       the lines written to the output sink                        *)
(*   res       the Object the last call returned                           *)
(*   nextId    allocation counter: the identity of List, Function and      *)
(*             Error objects                                               *)
(*   panicked  a Go run-time panic unwound the evaluation                  *)
(* and two history fields that observe the run without influencing it:     *)
(*   firstErr  the first Error object that was produced, or None           *)
(*   late      some node was evaluated, binding written or builtin run     *)
(*             after firstErr was produced                                 *)
(*   calls     the stack of the user-function calls in progress: for each  *)
(*             the value of the first return statement it executed (ret),  *)
(*             how deep in for bodies and if blocks of the function body   *)
(*             the evaluation is, where that return was executed, and      *)
(*             whether a statement or loop iteration of the body started   *)
(*             after it (late), and whether binding the parameters wrote   *)
(*             the call's own frame only (paramsLocal); the frame the body *)
(*             runs in, that frame's outer frame, the environment the      *)
(*             function captured and the environment of the caller         *)
(*   done      the finished calls: their calls entry and their result      *)
(*   ops       the infix operations applied to two evaluated operands:     *)
(*             operator, operands and result                               *)
(*   cx        the call expressions under evaluation, innermost last: the  *)
(*             steps taken so far (0 the callee, i the i-th argument,      *)
(*             number of arguments + 1 the application of the function)    *)
(*             and the first argument that yielded an Error                *)
(*   callx     the call expressions evaluated: their cx entry, the         *)
(*             result, and what applying the function did to the frames,   *)
(*             the output and the list of finished calls                   *)
(*   ix        the infix expressions under evaluation, innermost last: the *)
(*             operator and the operands whose evaluation has started      *)
(*   infixes   the infix expressions evaluated: their ix entry, the value  *)
(*             of the left operand and the output before and after         *)
(*   fx        the for loops under evaluation, innermost last: the         *)
(*             enclosing environment, the loop's frame, the values the     *)
(*             iteration variable had at the start of each run of the      *)
(*             body, and whether binding it left every other frame alone   *)
(*   loops     the for loops evaluated: their fx entry, the result, and    *)
(*             the binding of the iteration variable's name in the         *)
(*             enclosing environment's own frame before and after          *)
(*   decls     the function declarations evaluated: the environment, the   *)
(*             name, and what the declaration did to the frames            *)
(***************************************************************************)
EvalState(heap) ==
    [heap |-> heap, out |-> <<>>, res |-> NULL, nextId |-> 1, panicked |-> FALSE,
     firstErr |-> None, late |-> FALSE, calls |-> <<>>, done |-> <<>>, ops |-> <<>>,
     decls |-> <<>>, cx |-> <<>>, callx |-> <<>>, ix |-> <<>>, infixes |-> <<>>,
     fx |-> <<>>, loops |-> <<>>]

Ret(st, obj) == [st EXCEPT !.res = obj]

\* History: one unit of evaluation work is about to happen.
Work(st) == IF st.firstErr # None THEN [st EXCEPT !.late = TRUE] ELSE st

StatementKinds ==
    {"ExpressionStatement", "AssignmentStatement", "BlockStatement", "IfStatement",
     "ForStatement", "ReturnStatement", "FunctionDeclaration", "ContextStatement"}

\* History: a statement or a loop iteration of the innermost call starts.
Step(st) ==
    LET n == Len(st.calls)
    IN IF n > 0 /\ st.calls[n].ret # None
       THEN [st EXCEPT !.calls[n].late = TRUE] ELSE st

\* History: Eval is entered for node.
Enter(node, st) == IF node.k \in StatementKinds THEN Step(Work(st)) ELSE Work(st)

\* History: a return statement of the innermost call produced val.
NoteReturn(st, val) ==
    LET n == Len(st.calls)
    IN IF n > 0 /\ st.calls[n].ret = None
       THEN [st EXCEPT !.calls[n].ret = val,
                       !.calls[n].retInFor = st.calls[n].forDepth > 0,
                       !.calls[n].retInIf = st.calls[n].ifDepth > 0]
       ELSE st

\* History: the evaluation enters (d = 1) or leaves (d = -1) a for body or
\* an if block of the innermost call.
Nest(st, field, d) ==
    LET n == Len(st.calls)
    IN IF n = 0 THEN st
       ELSE IF field = "for" THEN [st EXCEPT !.calls[n].forDepth = @ + d]
       ELSE [st EXCEPT !.calls[n].ifDepth = @ + d]

\* History: a call of a user function starts and ends.
PushCall(st, paramsLocal) ==
    [st EXCEPT !.calls = Append(@, [ret |-> None, retInFor |-> FALSE, retInIf |-> FALSE,
                                    forDepth |-> 0, ifDepth |-> 0, late |-> FALSE,
                                    paramsLocal |-> paramsLocal,
                                    frame |-> 0, outer |-> 0, captured |-> 0,
                                    caller |-> 0, fresh |-> FALSE])]

\* History: the innermost call runs its body in frame, created by this call
\* (fresh), for a function that captured the environment captured and was
\* called from the environment caller.
NoteFrame(st, frame, fresh, captured, caller) ==
    [st EXCEPT !["calls"][Len(st.calls)] =
        [@ EXCEPT !.frame = frame, !.outer = st.heap[frame].outer, !.fresh = fresh,
                  !.captured = captured, !.caller = caller]]

PopCall(st) ==
    LET n == Len(st.calls)
        c == st.calls[n]
    IN [st EXCEPT !.calls = SubSeq(@, 1, n - 1),
                  !.done = Append(@, [ret |-> c.ret, retInFor |-> c.retInFor,
                                      retInIf |-> c.retInIf, late |-> c.late,
                                      paramsLocal |-> c.paramsLocal,
                                      frame |-> c.frame, outer |-> c.outer,
                                      captured |-> c.captured, caller |-> c.caller,
                                      fresh |-> c.fresh,
                                      result |-> st.res])]

\* History: the evaluation of a call expression with nargs arguments starts;
\* it takes step k; its argument i yielded the Error st.res; it ends, fn
\* being the function applied (None if none was) and before the state in
\* which it was applied.
OpenCall(st, nargs) ==
    [st EXCEPT !.cx = Append(@, [nargs |-> nargs, events |-> <<>>, errAt |-> 0,
                                 argErr |-> None])]

NoteCallStep(st, k) == [st EXCEPT !.cx[Len(st.cx)].events = Append(@, k)]

NoteArgError(st, i) ==
    [st EXCEPT !.cx[Len(st.cx)].errAt = i, !.cx[Len(st.cx)].argErr = st.res]

CloseCall(st, fn, before) ==
    LET c == st.cx[Len(st.cx)]
    IN [st EXCEPT !.cx = SubSeq(@, 1, Len(@) - 1),
                  !.callx = Append(@,
                      [nargs |-> c.nargs, events |-> c.events, errAt |-> c.errAt,
                       argErr |-> c.argErr, result |-> st.res,
                       panicked |-> st.panicked,
                       user |-> fn.t = FUNCTION_OBJ,
                       nparams |-> IF fn.t = FUNCTION_OBJ THEN Len(fn.params) ELSE 0,
                       heapSame |-> st.heap = before.heap,
                       bodySkipped |-> /\ Len(st.done) = Len(before.done)
                                       /\ st.calls = before.calls
                                       /\ st.out = before.out])]

\* History: a declaration of name in env turned the frames before into
\* those of st, binding fn.
NoteDeclaration(st, env, name, fn, before) ==
    [st EXCEPT !.decls = Append(@,
        [env |-> env, name |-> name, captured |-> fn.env, result |-> st.res,
         outerBinds |-> ~Bound(before, env, name) /\ Has(before, env, name),
         own |-> Bound(st.heap, env, name) /\ st.heap[env].store[name] = fn,
         othersSame |-> \A f \in 1..Len(before) : f # env => st.heap[f] = before[f]])]

\* History: a for loop over elems starts in env, before being the frames
\* before its frame was created; the body is about to run, before being the
\* frames before the iteration variable was bound; the loop ends.
OpenLoop(st, env, frame, name, elems, before) ==
    [st EXCEPT !.fx = Append(@,
        [env |-> env, frame |-> frame, name |-> name, elems |-> elems,
         fresh |-> frame = Len(before) + 1,
         seen |-> <<>>, bindOnly |-> TRUE,
         had |-> Bound(before, env, name),
         val |-> IF Bound(before, env, name) THEN before[env].store[name] ELSE None])]

NoteIteration(st, before) ==
    LET c == st.fx[Len(st.fx)]
    IN [st EXCEPT !.fx[Len(st.fx)].seen =
                      Append(@, IF Bound(st.heap, c.frame, c.name)
                                THEN st.heap[c.frame].store[c.name] ELSE None),
                  !.fx[Len(st.fx)].bindOnly =
                      /\ @
                      /\ Len(st.heap) = Len(before)
                      /\ \A f \in 1..Len(before) :
                            f # c.frame => st.heap[f] = before[f]]

CloseLoop(st) ==
    LET c == st.fx[Len(st.fx)]
    IN [st EXCEPT !.fx = SubSeq(@, 1, Len(@) - 1),
                  !.loops = Append(@,
                      [env |-> c.env, frame |-> c.frame, name |-> c.name,
                       elems |-> c.elems, fresh |-> c.fresh, seen |-> c.seen,
                       bindOnly |-> c.bindOnly,
                       outer |-> st.heap[c.frame].outer,
                       result |-> st.res, panicked |-> st.panicked,
                       had |-> c.had, val |-> c.val,
                       has |-> Bound(st.heap, c.env, c.name),
                       now |-> IF Bound(st.heap, c.env, c.name)
                               THEN st.heap[c.env].store[c.name] ELSE None])]

\* History: the evaluation of an infix expression starts; the evaluation of
\* its operand side starts; it ends, left being the state after the left
\* operand.
OpenInfix(st, op) == [st EXCEPT !.ix = Append(@, [op |-> op, events |-> <<>>])]

NoteOperand(st, side) == [st EXCEPT !.ix[Len(st.ix)].events = Append(@, side)]

CloseInfix(st, left) ==
    LET x == st.ix[Len(st.ix)]
    IN [st EXCEPT !.ix = SubSeq(@, 1, Len(@) - 1),
                  !.infixes = Append(@,
                      [op |-> x.op, events |-> x.events, left |-> left.res,
                       leftPanicked |-> left.panicked,
                       outLeft |-> left.out, out |-> st.out])]

\* History: op was applied to the evaluated operands left and right.
NoteInfix(st, op, left, right) ==
    [st EXCEPT !.ops = Append(@, [op |-> op, left |-> left, right |-> right,
                                  result |-> st.res])]

newError(st, pos, msg) ==
    LET e == Error(st.nextId, msg, pos.line, pos.column)
    IN [st EXCEPT !.res = e, !.nextId = @ + 1,
                  !.firstErr = IF @ = None THEN e ELSE @]

isError(obj) == obj # None /\ Type(obj) = ERROR_OBJ

isTruthy(obj) ==
    CASE obj.t = BOOLEAN_OBJ -> obj.b
      [] obj.t = NULL_OBJ -> FALSE
      [] OTHER -> TRUE

nativeBoolToBooleanObject(value) == IF value THEN TRUE_ ELSE FALSE_

\* An == on objects that compares what they hold.
SameValue(a, b) ==
    /\ a.t = b.t
    /\ CASE a.t = LIST_OBJ -> a.elems = b.elems
         [] OTHER -> a = b

\* Go's == on two Object interfaces holding pointers: the same object.
SameObject(a, b) ==
    /\ a.t = b.t
    /\ CASE a.t = BOOLEAN_OBJ -> a.b = b.b
         [] a.t = NULL_OBJ -> TRUE
         [] a.t = BUILTIN_OBJ -> a.name = b.name
         [] a.t \in {LIST_OBJ, FUNCTION_OBJ, ERROR_OBJ} -> a.id = b.id
         [] OTHER -> FALSE

\* Go's integer division truncates toward zero.
GoDiv(a, b) ==
    LET q == Abs(a) \div Abs(b)
    IN IF (a < 0) = (b < 0) THEN q ELSE -q

\* An evalIntegerInfixExpression that divides without looking at the
\* divisor: the host traps on 0.
evalIntegerInfixExpressionTrap(st, op, left, right, pos) ==
    LET leftVal == left.i
        rightVal == right.i
    IN CASE op = "+" -> Ret(st, Integer(leftVal + rightVal))
         [] op = "-" -> Ret(st, Integer(leftVal - rightVal))
         [] op = "*" -> Ret(st, Integer(leftVal * rightVal))
         [] op = "/" ->
               IF rightVal = 0 THEN [st EXCEPT !.panicked = TRUE]
               ELSE Ret(st, Integer(GoDiv(leftVal, rightVal)))
         [] op = "<" -> Ret(st, nativeBoolToBooleanObject(leftVal < rightVal))
         [] op = ">" -> Ret(st, nativeBoolToBooleanObject(leftVal > rightVal))
         [] op = "<=" -> Ret(st, nativeBoolToBooleanObject(leftVal <= rightVal))
         [] op = ">=" -> Ret(st, nativeBoolToBooleanObject(leftVal >= rightVal))
         [] op = "==" -> Ret(st, nativeBoolToBooleanObject(leftVal = rightVal))
         [] op = "!=" -> Ret(st, nativeBoolToBooleanObject(leftVal # rightVal))
         [] OTHER -> newError(st, pos, "unknown operator: INTEGER " \o op \o " INTEGER")

evalIntegerInfixExpression(st, op, left, right, pos) ==
    LET leftVal == left.i
        rightVal == right.i
    IN CASE op = "+" -> Ret(st, Integer(leftVal + rightVal))
         [] op = "-" -> Ret(st, Integer(leftVal - rightVal))
         [] op = "*" -> Ret(st, Integer(leftVal * rightVal))
         [] op = "/" ->
               IF rightVal = 0 THEN newError(st, pos, "division by zero")
               ELSE Ret(st, Integer(GoDiv(leftVal, rightVal)))
         [] op = "<" -> Ret(st, nativeBoolToBooleanObject(leftVal < rightVal))
         [] op = ">" -> Ret(st, nativeBoolToBooleanObject(leftVal > rightVal))
         [] op = "<=" -> Ret(st, nativeBoolToBooleanObject(leftVal <= rightVal))
         [] op = ">=" -> Ret(st, nativeBoolToBooleanObject(leftVal >= rightVal))
         [] op = "==" -> Ret(st, nativeBoolToBooleanObject(leftVal = rightVal))
         [] op = "!=" -> Ret(st, nativeBoolToBooleanObject(leftVal # rightVal))
         [] OTHER -> newError(st, pos, "unknown operator: INTEGER " \o op \o " INTEGER")

evalFloatInfixExpression(st, op, left, right, pos) ==
    LET l == left.num * right.den
        r == right.num * left.den
        d == left.den * right.den
    IN CASE op = "+" -> Ret(st, Float(l + r, d))
         [] op = "-" -> Ret(st, Float(l - r, d))
         [] op = "*" -> Ret(st, Float(left.num * right.num, d))
         [] op = "/" ->
               IF right.num = 0 THEN newError(st, pos, "division by zero")
               ELSE Ret(st, Float(l, r))
         [] op = "<" -> Ret(st, nativeBoolToBooleanObject(l < r))
         [] op = ">" -> Ret(st, nativeBoolToBooleanObject(l > r))
         [] op = "<=" -> Ret(st, nativeBoolToBooleanObject(l <= r))
         [] op = ">=" -> Ret(st, nativeBoolToBooleanObject(l >= r))
         [] op = "==" -> Ret(st, nativeBoolToBooleanObject(l = r))
         [] op = "!=" -> Ret(st, nativeBoolToBooleanObject(l # r))
         [] OTHER -> newError(st, pos, "unknown operator: FLOAT " \o op \o " FLOAT")

evalStringInfixExpression(st, op, left, right, pos) ==
    LET leftVal == left.s
        rightVal == right.s
    IN CASE op = "+" -> Ret(st, String(leftVal \o rightVal))
         [] op = "==" -> Ret(st, nativeBoolToBooleanObject(leftVal = rightVal))
         [] op = "!=" -> Ret(st, nativeBoolToBooleanObject(leftVal # rightVal))
         [] OTHER -> newError(st, pos, "unknown operator: STRING " \o op \o " STRING")

\* The switch of evalInfixExpression on the two evaluated operands.
infixDispatch(st, node, left, right) ==
    LET pos == Pos(node)
        op == node.tok.type
    IN CASE Type(left) = INTEGER_OBJ /\ Type(right) = INTEGER_OBJ ->
               evalIntegerInfixExpression(st, op, left, right, pos)
         [] Type(left) = FLOAT_OBJ /\ Type(right) = FLOAT_OBJ ->
               evalFloatInfixExpression(st, op, left, right, pos)
         [] Type(left) = STRING_OBJ /\ Type(right) = STRING_OBJ ->
               evalStringInfixExpression(st, op, left, right, pos)
         [] OTHER ->
               IF op = "==" THEN Ret(st, nativeBoolToBooleanObject(SameObject(left, right)))
               ELSE IF op = "!=" THEN Ret(st, nativeBoolToBooleanObject(~SameObject(left, right)))
               ELSE IF op = "||"
                    THEN Ret(st, nativeBoolToBooleanObject(isTruthy(left) \/ isTruthy(right)))
               ELSE IF op = "&&"
                    THEN Ret(st, nativeBoolToBooleanObject(isTruthy(left) /\ isTruthy(right)))
               ELSE IF Type(left) # Type(right)
                    THEN newError(st, pos, "type mismatch: " \o Type(left) \o " "
                                            \o node.tok.literal \o " " \o Type(right))
               ELSE newError(st, pos, "unknown operator: " \o Type(left) \o " "
                                       \o node.tok.literal \o " " \o Type(right))

evalBangOperator(right) ==
    IF right = TRUE_ THEN FALSE_
    ELSE IF right = FALSE_ THEN TRUE_
    ELSE IF right = NULL THEN TRUE_
    ELSE FALSE_

evalMinusPrefixOperator(st, right, pos) ==
    CASE right.t = INTEGER_OBJ -> Ret(st, Integer(-right.i))
      [] right.t = FLOAT_OBJ -> Ret(st, Float(-right.num, right.den))
      [] OTHER -> newError(st, pos, "unknown operator: -" \o Type(right))

unwrapReturnValue(obj) ==
    IF obj.t = RETURN_VALUE_OBJ THEN obj.value ELSE obj

\* builtinPrint (src/unnamed/part_001): one line on the sink, NULL back.
builtinPrint(st, args) ==
    LET line == JoinStrings([k \in 1..Len(args) |-> Inspect(args[k])], " ")
    IN [st EXCEPT !.out = Append(@, line), !.res = NULL]

\* RegisterBuiltins on a fresh root environment.
RegisterBuiltins(heap, env) == Set(heap, env, "print", Builtin("print"))

RECURSIVE Eval(_, _, _)
RECURSIVE evalBlockFrom(_, _, _, _)
RECURSIVE evalForFrom(_, _, _, _, _)
RECURSIVE evalArgumentsFrom(_, _, _, _, _)
RECURSIVE evalListLiteralFrom(_, _, _, _, _)
RECURSIVE extendFunctionEnvFrom(_, _, _, _, _)

evalAssignment(node, env, st) ==
    LET s1 == Eval(node.value, env, st)
    IN IF s1.panicked \/ isError(s1.res) THEN s1
       ELSE [Work(s1) EXCEPT !.heap = Set(s1.heap, env, node.name.value, s1.res),
                             !.res = NULL]

\* One iteration of evalBlock's loop, from statement i on.  The loop's
\* result variable is declared anew inside the loop body (result := ...),
\* so the value returned after the last statement is the outer NULL.
blockStops(result) == isError(result) \/ Type(result) = RETURN_VALUE_OBJ

evalBlockFrom(stmts, i, env, st) ==
    IF i > Len(stmts) THEN Ret(st, NULL)
    ELSE LET s1 == Eval(stmts[i], env, st)
         IN IF s1.panicked \/ blockStops(s1.res) THEN s1
            ELSE evalBlockFrom(stmts, i + 1, env, s1)

evalBlock(node, env, st) == evalBlockFrom(node.stmts, 1, env, st)

evalIf(node, env, st) ==
    LET s1 == Eval(node.cond, env, st)
    IN IF s1.panicked \/ isError(s1.res) THEN s1
       ELSE IF Type(s1.res) # BOOLEAN_OBJ
            THEN [s1 EXCEPT !.panicked = TRUE, !.res = None]
       ELSE IF s1.res.b THEN Nest(Eval(node.cons, env, Nest(s1, "if", 1)), "if", -1)
       ELSE IF node.alt # Nil THEN Nest(Eval(node.alt, env, Nest(s1, "if", 1)), "if", -1)
       ELSE Ret(s1, NULL)

\* One iteration of evalFor's loop over list.Elements, from element i on.
forStops(result) == isError(result)

evalForFrom(node, elems, i, loopEnv, st) ==
    IF i > Len(elems) THEN Ret(st, NULL)
    ELSE LET s0 == NoteIteration(
                       [Step(Work(st)) EXCEPT
                           !.heap = SetLocal(st.heap, loopEnv, node.iterator.value, elems[i])],
                       st.heap)
             s1 == Nest(Eval(node.body, loopEnv, Nest(s0, "for", 1)), "for", -1)
         IN IF s1.panicked \/ forStops(s1.res) THEN s1
            ELSE evalForFrom(node, elems, i + 1, loopEnv, s1)

\* An evalFor that runs the body in the enclosing environment.
evalForShared(node, env, st) ==
    LET s1 == Eval(node.iterable, env, st)
    IN IF s1.panicked \/ isError(s1.res) THEN s1
       ELSE IF Type(s1.res) # LIST_OBJ
            THEN newError(s1, Pos(node), "cannot iterate over " \o Type(s1.res))
       ELSE CloseLoop(evalForFrom(node, s1.res.elems, 1, env,
                                  OpenLoop(s1, env, env, node.iterator.value,
                                           s1.res.elems, s1.heap)))

evalFor(node, env, st) ==
    LET s1 == Eval(node.iterable, env, st)
    IN IF s1.panicked \/ isError(s1.res) THEN s1
       ELSE IF Type(s1.res) # LIST_OBJ
            THEN newError(s1, Pos(node), "cannot iterate over " \o Type(s1.res))
       ELSE LET s2 == [s1 EXCEPT !.heap = NewEnclosedEnvironment(s1.heap, env)]
                loopEnv == Len(s2.heap)
            IN CloseLoop(evalForFrom(node, s1.res.elems, 1, loopEnv,
                                     OpenLoop(s2, env, loopEnv, node.iterator.value,
                                              s1.res.elems, s1.heap)))

evalFunctionDeclaration(node, env, st) ==
    LET fn == Function(st.nextId, node.params, node.body, env)
    IN NoteDeclaration([Work(st) EXCEPT !.heap = Set(st.heap, env, node.name.value, fn),
                                        !.nextId = @ + 1, !.res = NULL],
                       env, node.name.value, fn, st.heap)

evalReturnStatement(node, env, st) ==
    IF node.rvalue = Nil THEN Ret(NoteReturn(st, NULL), ReturnValue(NULL))
    ELSE LET s1 == Eval(node.rvalue, env, st)
         IN IF s1.panicked \/ isError(s1.res) THEN s1
            ELSE Ret(NoteReturn(s1, s1.res), ReturnValue(s1.res))

evalIdentifier(node, env, st) ==
    LET r == Get(st.heap, env, node.value)
    IN IF ~r.ok THEN newError(st, Pos(node), "undefined variable: " \o node.value)
       ELSE Ret(st, r.obj)

\* evalArguments: the arguments from i on, acc the values so far.  The
\* result is the pair (args, err) of the Go function with the state.
evalArgumentsFrom(arguments, i, env, st, acc) ==
    IF i > Len(arguments) THEN [st |-> st, args |-> acc, err |-> None]
    ELSE LET s1 == Eval(arguments[i].value, env, NoteCallStep(st, i))
         IN IF s1.panicked \/ isError(s1.res)
            THEN [st |-> NoteArgError(s1, i), args |-> <<>>, err |-> s1.res]
            ELSE evalArgumentsFrom(arguments, i + 1, env, s1, Append(acc, s1.res))

\* An evalArguments that evaluates every argument before it reports the
\* first Error.
RECURSIVE evalArgumentsAllFrom(_, _, _, _, _, _)
evalArgumentsAllFrom(arguments, i, env, st, acc, err) ==
    IF i > Len(arguments)
    THEN [st |-> IF err = None THEN st ELSE [st EXCEPT !.res = err],
          args |-> IF err = None THEN acc ELSE <<>>, err |-> err]
    ELSE LET s1 == Eval(arguments[i].value, env, NoteCallStep(st, i))
         IN IF s1.panicked THEN [st |-> s1, args |-> <<>>, err |-> s1.res]
            ELSE IF err = None /\ isError(s1.res)
            THEN evalArgumentsAllFrom(arguments, i + 1, env, NoteArgError(s1, i),
                                      acc, s1.res)
            ELSE evalArgumentsAllFrom(arguments, i + 1, env, s1,
                                      Append(acc, s1.res), err)

evalArgumentsAll(arguments, env, st) ==
    evalArgumentsAllFrom(arguments, 1, env, st, <<>>, None)

evalArguments(arguments, env, st) == evalArgumentsFrom(arguments, 1, env, st, <<>>)

\* extendFunctionEnv: binds parameter i and the following ones in env.
bindParameter(heap, env, name, val) == Set(heap, env, name, val)

extendFunctionEnvFrom(fn, args, i, env, st) ==
    IF i > Len(fn.params) THEN st
    ELSE extendFunctionEnvFrom(fn, args, i + 1, env,
            [Work(st) EXCEPT !.heap = bindParameter(st.heap, env, fn.params[i].value, args[i])])

\* An extendFunctionEnv whose new frame encloses the global environment
\* whatever the function captured.
extendFunctionEnvGlobal(fn, args, st) ==
    LET s1 == [st EXCEPT !.heap = NewEnclosedEnvironment(st.heap, 1)]
    IN extendFunctionEnvFrom(fn, args, 1, Len(s1.heap), s1)

extendFunctionEnv(fn, args, st) ==
    LET s1 == [st EXCEPT !.heap = NewEnclosedEnvironment(st.heap, fn.env)]
    IN extendFunctionEnvFrom(fn, args, 1, Len(s1.heap), s1)

\* An applyFunction that creates the call's frame and binds the parameters
\* it has arguments for before it compares the counts.
applyFunctionBindFirst(env, fn, args, pos, st) ==
    CASE fn.t = FUNCTION_OBJ ->
            LET n == IF Len(args) < Len(fn.params) THEN Len(args) ELSE Len(fn.params)
                s1 == extendFunctionEnv([fn EXCEPT !.params = SubSeq(@, 1, n)],
                                        SubSeq(args, 1, n), st)
                child == Len(s1.heap)
            IN IF Len(args) # Len(fn.params)
               THEN newError(s1, pos, "wrong number of arguments: expected "
                                       \o ToString(Len(fn.params)) \o ", got "
                                       \o ToString(Len(args)))
               ELSE LET s2 == Eval(fn.body, child,
                                   NoteFrame(PushCall(s1, TRUE), child,
                                             child = Len(st.heap) + 1, fn.env, env))
                    IN IF s2.panicked THEN s2
                       ELSE PopCall(Ret(s2, unwrapReturnValue(s2.res)))
      [] fn.t = BUILTIN_OBJ -> builtinPrint(Work(st), args)
      [] OTHER -> newError(st, pos, "not a function: " \o Type(fn))

applyFunction(env, fn, args, pos, st) ==
    CASE fn.t = FUNCTION_OBJ ->
            IF Len(args) # Len(fn.params)
            THEN newError(st, pos, "wrong number of arguments: expected "
                                    \o ToString(Len(fn.params)) \o ", got "
                                    \o ToString(Len(args)))
            ELSE LET s1 == extendFunctionEnv(fn, args, st)
                     child == Len(s1.heap)
                     paramsLocal ==
                         /\ \A k \in 1..Len(fn.params) :
                                Bound(s1.heap, child, fn.params[k].value)
                         /\ SubSeq(s1.heap, 1, Len(st.heap)) = st.heap
                     s2 == Eval(fn.body, child,
                                NoteFrame(PushCall(s1, paramsLocal), child,
                                          child = Len(st.heap) + 1, fn.env, env))
                 IN IF s2.panicked THEN s2
                    ELSE PopCall(Ret(s2, unwrapReturnValue(s2.res)))
      [] fn.t = BUILTIN_OBJ -> builtinPrint(Work(st), args)
      [] OTHER -> newError(st, pos, "not a function: " \o Type(fn))

evalCallExpression(node, env, st) ==
    LET n == Len(node.arguments)
        s1 == Eval(node.function, env, NoteCallStep(OpenCall(st, n), 0))
    IN IF s1.panicked \/ isError(s1.res) THEN CloseCall(s1, None, s1)
       ELSE LET r == evalArguments(node.arguments, env, s1)
            IN IF r.st.panicked \/ r.err # None THEN CloseCall(r.st, None, r.st)
               ELSE LET s2 == NoteCallStep(r.st, n + 1)
                    IN CloseCall(applyFunction(env, s1.res, r.args, Pos(node), s2),
                                 s1.res, s2)

evalPrefixExpression(node, env, st) ==
    LET s1 == Eval(node.right, env, st)
    IN IF s1.panicked \/ isError(s1.res) THEN s1
       ELSE CASE node.tok.type = "!" -> Ret(s1, evalBangOperator(s1.res))
              [] node.tok.type = "-" -> evalMinusPrefixOperator(s1, s1.res, Pos(node))
              [] OTHER -> newError(s1, Pos(node), "unknown operator: " \o node.tok.literal
                                                   \o Type(s1.res))

\* An evalInfixExpression whose && and || leave the right operand alone
\* when the left one decides the result.
evalInfixExpressionShortCircuit(node, env, st) ==
    LET op == node.tok.type
        s1 == Eval(node.left, env, NoteOperand(OpenInfix(st, op), "left"))
    IN IF s1.panicked \/ isError(s1.res) THEN CloseInfix(s1, s1)
       ELSE IF (op = "&&" /\ ~isTruthy(s1.res)) \/ (op = "||" /\ isTruthy(s1.res))
       THEN CloseInfix(s1, s1)
       ELSE LET s2 == Eval(node.right, env, NoteOperand(s1, "right"))
            IN IF s2.panicked \/ isError(s2.res) THEN CloseInfix(s2, s1)
               ELSE CloseInfix(NoteInfix(infixDispatch(s2, node, s1.res, s2.res),
                                         op, s1.res, s2.res), s1)

evalInfixExpression(node, env, st) ==
    LET s1 == Eval(node.left, env, NoteOperand(OpenInfix(st, node.tok.type), "left"))
    IN IF s1.panicked \/ isError(s1.res) THEN CloseInfix(s1, s1)
       ELSE LET s2 == Eval(node.right, env, NoteOperand(s1, "right"))
            IN IF s2.panicked \/ isError(s2.res) THEN CloseInfix(s2, s1)
               ELSE CloseInfix(NoteInfix(infixDispatch(s2, node, s1.res, s2.res),
                                         node.tok.type, s1.res, s2.res), s1)

evalListLiteralFrom(elements, i, env, st, acc) ==
    IF i > Len(elements)
    THEN [st EXCEPT !.res = List(st.nextId, acc), !.nextId = @ + 1]
    ELSE LET s1 == Eval(elements[i], env, st)
         IN IF s1.panicked \/ isError(s1.res) THEN s1
            ELSE evalListLiteralFrom(elements, i + 1, env, s1, Append(acc, s1.res))

evalListLiteral(node, env, st) == evalListLiteralFrom(node.elements, 1, env, st, <<>>)

\* Eval's type switch.  A node type without a case (IndexExpression,
\* MemberExpression, PipeExpression, ObjectLiteral, ContextStatement)
\* falls through to the "unknown node type" error.
EvalNode(node, env, st) ==
    CASE node.k = "ExpressionStatement" -> Eval(node.expr, env, st)
      [] node.k = "AssignmentStatement" -> evalAssignment(node, env, st)
      [] node.k = "BlockStatement" -> evalBlock(node, env, st)
      [] node.k = "IfStatement" -> evalIf(node, env, st)
      [] node.k = "ForStatement" -> evalFor(node, env, st)
      [] node.k = "FunctionDeclaration" -> evalFunctionDeclaration(node, env, st)
      [] node.k = "ReturnStatement" -> evalReturnStatement(node, env, st)
      [] node.k = "IntegerLiteral" -> Ret(st, Integer(node.ivalue))
      [] node.k = "FloatLiteral" -> Ret(st, Float(node.num, node.den))
      [] node.k = "StringLiteral" -> Ret(st, String(node.value))
      [] node.k = "BooleanLiteral" -> Ret(st, nativeBoolToBooleanObject(node.bvalue))
      [] node.k = "NullLiteral" -> Ret(st, NULL)
      [] node.k = "ListLiteral" -> evalListLiteral(node, env, st)
      [] node.k = "Identifier" -> evalIdentifier(node, env, st)
      [] node.k = "CallExpression" -> evalCallExpression(node, env, st)
      [] node.k = "PrefixExpression" -> evalPrefixExpression(node, env, st)
      [] node.k = "InfixExpression" -> evalInfixExpression(node, env, st)
      [] node.k = "GroupedExpression" -> Eval(node.expr, env, st)
      [] OTHER -> newError(st, Pos(node), "unknown node type: " \o GoTypeName(node))

Eval(node, env, st) == IF st.panicked THEN st ELSE EvalNode(node, env, Enter(node, st))

(***************************************************************************)
(* Programs handed to Eval.  The builders give every token the position    *)
(* line 1, column 1.                                                       *)
(***************************************************************************)
Tk(type, literal) == Token(type, literal, 1, 1)

Id(n) == Identifier(Tk("IDENT", n), n)
IntL(v) == IntegerLiteral(Tk("INT", ToString(v)), v)
FltL(n, d) == FloatLiteral(Tk("FLOAT", ToString(n) \o "/" \o ToString(d)), n, d)
StrL(v) == StringLiteral(Tk("STRING", v), v)
BoolL(b) == BooleanLiteral(Tk(IF b THEN "TRUE" ELSE "FALSE", IF b THEN "true" ELSE "false"), b)
NulL == NullLiteral(Tk("NULL", "null"))
LstL(elems) == ListLiteral(Tk("[", "["), elems)
Bin(l, op, r) == InfixExpression(Tk(op, op), l, op, r)
Un(op, r) == PrefixExpression(Tk(op, op), op, r)
Idx(l, i) == IndexExpression(Tk("[", "["), l, i)
Call(f, args) ==
    CallExpression(Tk("(", "("), f, [k \in 1..Len(args) |-> Argument(Nil, args[k])])
ExprS(e) == ExpressionStatement(e.tok, e)
Asg(n, e) == AssignmentStatement(Tk("IDENT", n), Id(n), e)
Blk(stmts) == BlockStatement(Tk("{", "{"), stmts)
If(c, cons) == IfStatement(Tk("IF", "if"), c, Blk(cons), Nil)
IfElse(c, cons, alt) == IfStatement(Tk("IF", "if"), c, Blk(cons), Blk(alt))
For(it, iterable, body) == ForStatement(Tk("FOR", "for"), Id(it), iterable, Blk(body))
Return(e) == ReturnStatement(Tk("RETURN", "return"), e)
Fn(name, params, body) ==
    FunctionDeclaration(Tk("FUNCTION", "fn"), Id(name),
                        [k \in 1..Len(params) |-> Id(params[k])], Blk(body))
Say(e) == ExprS(Call(Id("print"), <<e>>))

\* Bounds of the programs.
MaxStmts == 3
MaxBody == 2
MaxList == 2

SeqsUpTo(S, n) == UNION {[1..k -> S] : k \in 0..n}

InfixOps == {"+", "-", "*", "/", "<", ">", "<=", ">=", "==", "!=", "&&", "||"}

\* Operand expressions: one or two of every type of value a literal makes.
Operands ==
    {IntL(0), IntL(2), FltL(1, 2), FltL(0, 1), StrL("a"), StrL(""), BoolL(TRUE), BoolL(FALSE), NulL,
     LstL(<<>>), LstL(<<IntL(1)>>)}

\* a op b; then a later statement.
OperatorPrograms ==
    {<<ExprS(Bin(a, op, b)), Asg("z", IntL(1))>> : a \in Operands, b \in Operands, op \in InfixOps}

\* list[i] for every list of at most MaxList elements and every index
\* around its bounds; then the same through a variable.
ListsUpTo(n) == {[k \in 1..len |-> IntL(10 * k)] : len \in 0..n}

IndexPrograms ==
    {<<ExprS(Idx(LstL(l), IntL(i)))>> : l \in ListsUpTo(MaxList), i \in -(MaxList + 1)..(MaxList + 1)}
    \cup {<<Asg("x", LstL(l)), ExprS(Idx(Id("x"), Un("-", IntL(1))))>> : l \in ListsUpTo(MaxList)}

\* Sequences of top-level statements: bindings, output, and an Error in
\* every position an Error can come from (u is never bound).
TopStmts ==
    {Asg("x", IntL(1)),
     Asg("x", Id("u")),
     Asg("y", Bin(Id("x"), "+", IntL(1))),
     Say(Id("x")),
     ExprS(Bin(Id("x"), "*", IntL(5))),
     ExprS(Bin(Id("u"), "+", Call(Id("print"), <<IntL(7)>>))),
     ExprS(Call(Id("print"), <<Bin(IntL(1), "/", IntL(0)), Call(Id("print"), <<IntL(8)>>)>>)),
     ExprS(LstL(<<Id("x"), Call(Id("print"), <<IntL(9)>>)>>)),
     For("i", LstL(<<IntL(1), IntL(2)>>),
         <<Say(Id("i")), Asg("x", Bin(IntL(1), "/", Bin(Id("i"), "-", IntL(1))))>>),
     If(Bin(Id("x"), "==", IntL(1)), <<Asg("x", IntL(2)), ExprS(Un("-", StrL("a"))), Say(IntL(6))>>),
     Return(Id("x"))}

StatementPrograms == SeqsUpTo(TopStmts, MaxStmts)

\* fn f(params) { body }  f(args);  with x and y bound around the call.
BodyStmts ==
    {Return(IntL(1)),
     Return(Id("x")),
     Return(Nil),
     Asg("x", IntL(2)),
     Say(Id("y")),
     ExprS(Id("u")),
     If(Bin(Id("x"), ">", IntL(5)), <<Return(IntL(3))>>),
     IfElse(BoolL(FALSE), <<Say(IntL(4))>>, <<If(BoolL(TRUE), <<Return(Id("y"))>>)>>),
     For("i", LstL(<<IntL(1), IntL(2)>>), <<Return(Id("i"))>>),
     For("i", LstL(<<IntL(1), IntL(2)>>), <<Say(Id("i"))>>)}

ParamLists == {<<>>, <<"x">>, <<"w">>, <<"x", "y">>}

ArgLists == {<<>>, <<IntL(7)>>, <<IntL(7), IntL(8)>>}

FunctionPrograms ==
    {<<Asg("x", IntL(5)), Asg("y", IntL(6)), Fn("f", ps, body), ExprS(Call(Id("f"), as)),
       Say(Id("x"))>> :
        ps \in ParamLists, as \in ArgLists, body \in SeqsUpTo(BodyStmts, MaxBody)}

\* Functions declared inside a function body or a loop body, a function
\* called from another function's body, and a function called twice.
ClosurePrograms ==
    {<<Asg(n, IntL(1)),
       Fn("g", <<>>, <<Fn("h", <<>>, <<Return(IntL(2))>>), Return(Call(Id("h"), <<>>))>>),
       ExprS(Call(Id("g"), <<>>)),
       ExprS(Id(n))>> : n \in {"h", "k"}}
    \cup {<<Asg(n, IntL(1)),
            For("i", LstL(<<IntL(1)>>), <<Fn("h", <<>>, <<>>)>>),
            ExprS(Id(n))>> : n \in {"h", "k"}}
    \cup {<<Fn("f", <<>>, <<Return(Id("a"))>>),
            Fn("g", <<>>, <<Asg("a", IntL(1)), Return(Call(Id("f"), <<>>))>>),
            ExprS(Call(Id("g"), <<>>))>>,
          <<Fn("f", <<"p">>, <<Return(Id("p"))>>),
            ExprS(Call(Id("f"), <<IntL(1)>>)),
            ExprS(Call(Id("f"), <<IntL(2)>>))>>}

\* Calls whose callee and arguments print, with an Error in every position
\* of the call and with fewer and more arguments than parameters.
CallArgs ==
    {Call(Id("print"), <<IntL(1)>>), Call(Id("print"), <<IntL(2)>>), Id("u"),
     Bin(IntL(1), "/", IntL(0))}

CallPrograms ==
    {<<Asg("x", IntL(5)),
       Fn("f", ps, <<Say(IntL(4)), Asg("x", IntL(9))>>),
       ExprS(Call(Id(c), as)),
       Say(Id("x"))>> :
        ps \in {<<>>, <<"a">>, <<"a", "b">>}, c \in {"f", "print", "u"},
        as \in SeqsUpTo(CallArgs, MaxList)}

\* a && b and a || b whose right operand prints, for a left operand of
\* every kind: true, false, of another type, printing, an Error.
LogicalPrograms ==
    {<<ExprS(Bin(a, op, Call(Id("print"), <<IntL(5)>>))), Say(IntL(6))>> :
        a \in {BoolL(TRUE), BoolL(FALSE), IntL(0), NulL, Id("u"),
                Call(Id("print"), <<IntL(4)>>)},
        op \in {"&&", "||"}}

\* x == v and x != v for a list, a declared function and the builtin x,
\* and v the same object under the same or another name, or another object.
EqualityPrograms ==
    {<<Asg("x", e), Asg("y", Id("x")), ExprS(Bin(Id("x"), op, v))>> :
        e \in {LstL(<<IntL(1)>>), Id("print"), NulL, BoolL(TRUE)},
        v \in {Id("x"), Id("y"), LstL(<<IntL(1)>>), Id("print"), BoolL(TRUE), IntL(1)},
        op \in {"==", "!="}}
    \cup {<<Fn("f", <<>>, <<>>), Fn("g", <<>>, <<>>), ExprS(Bin(Id("f"), op, Id(v)))>> :
            v \in {"f", "g"}, op \in {"==", "!="}}

\* q = a / b on line 2, a starting in column 3 and the / in column 7, for
\* dividends and divisors that are literals, negated literals and
\* differences; then print(q).
At(e, column) == [e EXCEPT !.tok.line = 2, !.tok.column = column]

Dividends ==
    {At(IntL(0), 3), At(IntL(7), 3),
     At(Un("-", IntL(7)), 3),
     At(FltL(0, 1), 3), At(FltL(3, 2), 3),
     InfixExpression(Token("+", "+", 2, 5),
                     At(IntL(1), 3), "+", At(IntL(2), 6))}

Divisors ==
    {At(e, 9) :
        e \in {IntL(0), IntL(2), FltL(0, 1), FltL(1, 2), Un("-", IntL(0)),
                Un("-", FltL(0, 1)),
                GroupedExpression(Tk("(", "("), Bin(IntL(2), "-", IntL(2))),
                GroupedExpression(Tk("(", "("), Bin(FltL(1, 2), "-", FltL(1, 2)))}}

DivisionPrograms ==
    {<<Asg("q", InfixExpression(Token("/", "/", 2, 7), a, "/", b)),
       Say(Id("q"))>> : a \in Dividends, b \in Divisors}

\* A loop over a list of at most MaxList elements whose body prints the
\* iteration variable i and assigns t (or i itself), with and without an i
\* bound before it; then print(i) or print(t).  A loop in a loop.
LoopLists == {[k \in 1..len |-> IntL(k)] : len \in 0..MaxList}

LoopPrograms ==
    {<<Asg(pre, IntL(9)),
       For("i", LstL(l), <<Say(Id("i")), Asg(w, Id("i"))>>),
       Say(Id(v))>> :
        pre \in {"i", "z"}, l \in LoopLists, w \in {"t", "i"}, v \in {"i", "t"}}
    \cup {<<Asg("i", IntL(9)),
            For("i", LstL(<<IntL(1), IntL(2)>>),
                <<For(n, LstL(<<IntL(3), IntL(4)>>), <<Say(Bin(Id("i"), "+", Id(n)))>>)>>),
            Say(Id("i"))>> : n \in {"i", "j"}}

\* A return statement at top level, last and not last, and inside a
\* top-level if block.
ReturnPrograms ==
    {<<Return(IntL(1))>>,
     <<Return(Nil)>>,
     <<Return(IntL(1)), Asg("x", IntL(2))>>,
     <<If(BoolL(TRUE), <<Return(IntL(1))>>)>>,
     <<If(BoolL(TRUE), <<Return(IntL(1))>>), Say(IntL(2))>>}

Programs ==
    ReturnPrograms \cup LoopPrograms \cup DivisionPrograms \cup EqualityPrograms \cup OperatorPrograms \cup IndexPrograms \cup StatementPrograms \cup FunctionPrograms
        \cup ClosurePrograms \cup CallPrograms \cup LogicalPrograms

(***************************************************************************)
(* Eval(program, env): evalProgram's loop, one statement per step, on a    *)
(* fresh root environment with the builtins registered.                    *)
(***************************************************************************)
RootEnv == 1

InitEval ==
    /\ mode = "eval"
    /\ program \in Programs
    /\ idx = 1
    /\ phase = "eval"
    /\ es = EvalState(RegisterBuiltins(NewEnvironment, RootEnv))
    /\ frames = <<>> /\ last = <<>> /\ input = <<>> /\ lx = <<>> /\ toks = <<>> /\ parser = <<>>

\* An evalProgram that goes on to the next statement after an Error.
programStopsNever(result) == FALSE

programStops(result) == isError(result)

\* One iteration of evalProgram's loop: the statement is evaluated; an
\* Error result is returned at once (a panic ends the evaluation too).
EvalStatement ==
    /\ mode = "eval"
    /\ phase = "eval"
    /\ idx <= Len(program)
    /\ LET s1 == Eval(program[idx], RootEnv, es)
       IN /\ es' = s1
          /\ IF s1.panicked \/ programStops(s1.res)
             THEN phase' = "done" /\ idx' = idx
             ELSE phase' = "eval" /\ idx' = idx + 1
    /\ UNCHANGED <<mode, program, envVars, input, lexVars, parser>>

\* An evalProgram that returns NULL after its loop.
EvalReturnNull ==
    /\ mode = "eval"
    /\ phase = "eval"
    /\ idx > Len(program)
    /\ phase' = "done"
    /\ es' = Ret(es, NULL)
    /\ UNCHANGED <<mode, program, idx, envVars, input, lexVars, parser>>

\* The loop is over: evalProgram returns the last result.
EvalReturn ==
    /\ mode = "eval"
    /\ phase = "eval"
    /\ idx > Len(program)
    /\ phase' = "done"
    /\ UNCHANGED <<mode, program, idx, es, envVars, input, lexVars, parser>>

NextEval == EvalStatement \/ EvalReturn

SpecEval == InitEval /\ [][NextEval]_vars

(***************************************************************************)
(* Claims about the evaluator, checked under SpecEval.                     *)
(***************************************************************************)
\* Statement i of the program has been evaluated.
Evaluated(i) == mode = "eval" /\ i <= Len(program) /\ (idx > i \/ (phase = "done" /\ idx = i))

\* C1: once an Error has been produced, evalProgram has returned, its
\* result is that very Error object, and nothing was evaluated, bound or
\* invoked after the Error was produced.
C1_ErrorEndsEvaluation ==
    (mode = "eval" /\ es.firstErr # None) =>
        /\ phase = "done"
        /\ es.res = es.firstErr
        /\ ~es.late

\* An Error produced in the second statement or later, after a builtin ran,
\* with statements still to come.
C1_Witness ==
    /\ mode = "eval" /\ phase = "done" /\ es.firstErr # None
    /\ 1 < idx /\ idx < Len(program)
    /\ es.out # <<>>

\* C3 (as claimed): binding the parameters of a call writes the call's own
\* fresh frame only: every parameter is bound there and no frame that
\* existed before the call changed.
C3_ParametersBoundLocally ==
    mode = "eval" =>
        /\ \A k \in 1..Len(es.done) : es.done[k].paramsLocal
        /\ \A k \in 1..Len(es.calls) : es.calls[k].paramsLocal

\* C4 (as claimed): a call whose first return was executed inside a for
\* body started no further iteration or statement of its body and
\* evaluates to the returned value.
C4_ReturnInsideForEndsCall ==
    mode = "eval" =>
        \A k \in 1..Len(es.done) :
            es.done[k].retInFor => (~es.done[k].late /\ es.done[k].result = es.done[k].ret)

\* C5 (as claimed): a call that executed a return statement evaluates to
\* the value of the first one, unwrapped, and started no statement of its
\* body after it.
C5_CallYieldsFirstReturn ==
    mode = "eval" =>
        \A k \in 1..Len(es.done) :
            es.done[k].ret # None =>
                /\ ~es.done[k].late
                /\ es.done[k].result = es.done[k].ret
                /\ Type(es.done[k].result) # RETURN_VALUE_OBJ

\* The truthiness of the claim: a Boolean is its value, Null is false,
\* everything else is true.
Truthy(obj) == IF obj.t = BOOLEAN_OBJ THEN obj.b ELSE obj.t # NULL_OBJ

\* C6 (as claimed): && and || on two evaluated operands of any types yield
\* the Boolean conjunction and disjunction of their truthiness.
C6_LogicalOperatorsCoerce ==
    mode = "eval" =>
        \A k \in 1..Len(es.ops) :
            LET o == es.ops[k]
            IN /\ o.op = "&&" => o.result = nativeBoolToBooleanObject(Truthy(o.left) /\ Truthy(o.right))
               /\ o.op = "||" => o.result = nativeBoolToBooleanObject(Truthy(o.left) \/ Truthy(o.right))

\* C8 (as claimed): list[i] on a list literal of length L and an integer
\* literal i yields element i, element L + i for a negative i from -L on,
\* and the out-of-bounds Error otherwise.
IndexResultOk(l, i, res) ==
    LET L == Len(l)
    IN IF 0 <= i /\ i < L THEN res = Integer(l[i + 1].ivalue)
       ELSE IF -L <= i /\ i < 0 THEN res = Integer(l[L + i + 1].ivalue)
       ELSE /\ Type(res) = ERROR_OBJ
            /\ res.msg = "index out of bounds: " \o ToString(i) \o " (length: "
                            \o ToString(L) \o ")"

C8_ListIndexing ==
    (/\ Evaluated(1)
     /\ program[1].k = "ExpressionStatement"
     /\ program[1].expr.k = "IndexExpression") =>
        IndexResultOk(program[1].expr.left.elements, program[1].expr.index.ivalue, es.res)

(***************************************************************************)
(* The Environment API called directly (as internal/eval's environment     *)
(* tests do): frames are created and written in any order, so every shape  *)
(* of chain and every pattern of shadowing occurs.                         *)
(***************************************************************************)
MaxFrames == 3
MaxWrites == 3

Names == {"x", "y"}
Values == {Integer(1), Integer(2)}

Call_(op, e, name, val, got) ==
    [op |-> op, env |-> e, name |-> name, val |-> val, got |-> got,
     before |-> frames, writes |-> IF op \in {"Set", "SetLocal"} THEN 1 ELSE 0]

InitEnv ==
    /\ mode = "env"
    /\ frames = NewEnvironment
    /\ last = [op |-> "NewEnvironment", env |-> 1, name |-> "", val |-> None,
               got |-> [obj |-> None, ok |-> FALSE], before |-> <<>>, writes |-> 0]
    /\ program = <<>> /\ idx = 0 /\ phase = "" /\ es = <<>>
    /\ input = <<>> /\ lx = <<>> /\ toks = <<>> /\ parser = <<>>

Written(call, n) == [call EXCEPT !.writes = n + call.writes]

EnvNewEnclosed ==
    /\ mode = "env"
    /\ Len(frames) < MaxFrames
    /\ \E outer \in 1..Len(frames) :
        /\ frames' = NewEnclosedEnvironment(frames, outer)
        /\ last' = Written(Call_("NewEnclosedEnvironment", outer, "", None,
                                 [obj |-> None, ok |-> FALSE]), last.writes)
    /\ UNCHANGED <<mode, evalVars, input, lexVars, parser>>

EnvSet ==
    /\ mode = "env"
    /\ last.writes < MaxWrites
    /\ \E e \in 1..Len(frames), name \in Names, val \in Values :
        /\ frames' = Set(frames, e, name, val)
        /\ last' = Written(Call_("Set", e, name, val, [obj |-> None, ok |-> FALSE]),
                           last.writes)
    /\ UNCHANGED <<mode, evalVars, input, lexVars, parser>>

EnvSetLocal ==
    /\ mode = "env"
    /\ last.writes < MaxWrites
    /\ \E e \in 1..Len(frames), name \in Names, val \in Values :
        /\ frames' = SetLocal(frames, e, name, val)
        /\ last' = Written(Call_("SetLocal", e, name, val, [obj |-> None, ok |-> FALSE]),
                           last.writes)
    /\ UNCHANGED <<mode, evalVars, input, lexVars, parser>>

EnvGet ==
    /\ mode = "env"
    /\ \E e \in 1..Len(frames), name \in Names :
        last' = Written(Call_("Get", e, name, None, Get(frames, e, name)), last.writes)
    /\ UNCHANGED <<mode, frames, evalVars, input, lexVars, parser>>

NextEnv == EnvNewEnclosed \/ EnvSet \/ EnvSetLocal \/ EnvGet

SpecEnv == InitEnv /\ [][NextEnv]_vars

\* The frames from e outward.
RECURSIVE Chain(_, _)
Chain(h, e) == IF e = 0 THEN <<>> ELSE <<e>> \o Chain(h, h[e].outer)

\* The frames of e's chain that bind name, nearest first.
Binders(h, e, name) == SelectSeq(Chain(h, e), LAMBDA f : name \in DOMAIN h[f].store)

ILLEGAL == "ILLEGAL"
EOF == "EOF"
IDENT == "IDENT"
INT == "INT"
FLOAT == "FLOAT"
STRING_T == "STRING"
ASSIGN == "="
PLUS == "+"
MINUS == "-"
BANG == "!"
ASTERISK == "*"
SLASH == "/"
LT == "<"
GT == ">"
EQ == "=="
NOT_EQ == "!="
LTE == "<="
GTE == ">="
OR == "||"
AND == "&&"
COMMA == ","
SEMICOLON == ";"
COLON == ":"
DOT == "."
PIPE == "|"
LPAREN == "("
RPAREN == ")"
LBRACE == "{"
RBRACE == "}"
LBRACKET == "["
RBRACKET == "]"
FUNCTION == "FUNCTION"
TRUE_T == "TRUE"
FALSE_T == "FALSE"
NULL_T == "NULL"
IF_T == "IF"
ELSE_T == "ELSE"
FOR == "FOR"
IN_T == "IN"
RETURN == "RETURN"
PROFILE == "PROFILE"
REGION == "REGION"

keywords ==
    [w \in {"fn", "true", "false", "null", "if", "else", "for", "in", "return",
            "profile", "region"} |->
        CASE w = "fn" -> FUNCTION
          [] w = "true" -> TRUE_T
          [] w = "false" -> FALSE_T
          [] w = "null" -> NULL_T
          [] w = "if" -> IF_T
          [] w = "else" -> ELSE_T
          [] w = "for" -> FOR
          [] w = "in" -> IN_T
          [] w = "return" -> RETURN
          [] w = "profile" -> PROFILE
          [] w = "region" -> REGION]

LookupIdent(ident) == IF ident \in DOMAIN keywords THEN keywords[ident] ELSE IDENT

(***************************************************************************)
(* The lexer (internal/lexer/lexer.go).  The input is a sequence of bytes, *)
(* each a one-character string; NUL is the zero byte, which is also what   *)
(* readChar stores in ch at the end of the input.                          *)
(***************************************************************************)
NUL == "NUL"

\* r is bound to the value of a call and handed to the code that follows it.
Then(r, F(_)) == F(r)

Letters ==
    {"a", "b", "c", "d", "e", "f", "g", "h", "i", "j", "k", "l", "m", "n", "o", "p",
     "q", "r", "s", "t", "u", "v", "w", "x", "y", "z",
     "A", "B", "C", "D", "E", "F", "G", "H", "I", "J", "K", "L", "M", "N", "O", "P",
     "Q", "R", "S", "T", "U", "V", "W", "X", "Y", "Z", "_"}

Digits == {"0", "1", "2", "3", "4", "5", "6", "7", "8", "9"}

isLetter(ch) == ch \in Letters

isDigit(ch) == ch \in Digits

\* input[from:to] as a string.
RECURSIVE Slice(_, _, _)
Slice(inp, from, to) ==
    IF from >= to THEN "" ELSE inp[from + 1] \o Slice(inp, from + 1, to)

readChar(l) ==
    [l EXCEPT !.line = IF l.ch = "\n" THEN @ + 1 ELSE @,
              !.column = IF l.ch = "\n" THEN 1 ELSE @ + 1,
              !.ch = IF l.readPosition >= Len(l.input) THEN NUL
                     ELSE l.input[l.readPosition + 1],
              !.position = l.readPosition,
              !.readPosition = @ + 1]

peekChar(l) ==
    IF l.readPosition >= Len(l.input) THEN NUL ELSE l.input[l.readPosition + 1]

NewLexer(inp) ==
    readChar([input |-> inp, position |-> 0, readPosition |-> 0, ch |-> NUL,
              line |-> 1, column |-> 0])

RECURSIVE skipLineComment(_)
skipLineComment(l) ==
    IF l.ch # "\n" /\ l.ch # NUL THEN skipLineComment(readChar(l)) ELSE l

RECURSIVE skipWhitespace(_)
skipWhitespace(l) ==
    IF l.ch \in {" ", "\t", "\n", "\r"} THEN skipWhitespace(readChar(l)) ELSE l

RECURSIVE skipWhitespaceAndComments(_)
skipWhitespaceAndComments(l) ==
    Then(skipWhitespace(l), LAMBDA l1 :
        IF l1.ch = "/" /\ peekChar(l1) = "/"
        THEN skipWhitespaceAndComments(skipLineComment(l1))
        ELSE l1)

RECURSIVE readWhile(_, _)
readWhile(l, chars) == IF l.ch \in chars THEN readWhile(readChar(l), chars) ELSE l

\* The functions that read a lexeme yield the lexer after it and the lexeme.
readIdentifier(l) ==
    Then(readWhile(l, Letters \cup Digits), LAMBDA l1 :
        [l |-> l1, literal |-> Slice(l.input, l.position, l1.position), type |-> IDENT])

readNumber(l) ==
    Then(readWhile(l, Digits), LAMBDA l1 :
        IF l1.ch = "." /\ isDigit(peekChar(l1))
        THEN Then(readWhile(readChar(l1), Digits), LAMBDA l2 :
                [l |-> l2, literal |-> Slice(l.input, l.position, l2.position),
                 type |-> FLOAT])
        ELSE [l |-> l1, literal |-> Slice(l.input, l.position, l1.position), type |-> INT])

RECURSIVE readStringFrom(_)
readStringFrom(l) ==
    Then(readChar(l), LAMBDA l1 :
        IF l1.ch = "\"" \/ l1.ch = NUL THEN l1 ELSE readStringFrom(l1))

readString(l) ==
    Then(readStringFrom(l), LAMBDA l1 :
        [l |-> l1, literal |-> Slice(l.input, l.position + 1, l1.position),
         type |-> STRING_T])

newToken(tokenType, ch, line, column) == Token(tokenType, ch, line, column)

OneCharTokens ==
    {"+", "-", "*", "/", ",", ";", ":", ".", "|", "(", ")", "{", "}", "[", "]"}

TwoCharTokens == {"=", "!", "<", ">"}

\* The switch of NextToken, on the lexer after the whitespace and comments.
scanToken(l) ==
    CASE l.ch \in TwoCharTokens ->
            IF peekChar(l) = "="
            THEN [l |-> readChar(readChar(l)),
                  tok |-> Token(l.ch \o "=", l.ch \o "=", l.line, l.column)]
            ELSE [l |-> readChar(l), tok |-> newToken(l.ch, l.ch, l.line, l.column)]
      [] l.ch \in OneCharTokens ->
            [l |-> readChar(l), tok |-> newToken(l.ch, l.ch, l.line, l.column)]
      [] l.ch = "\"" ->
            Then(readString(l), LAMBDA r :
                [l |-> readChar(r.l), tok |-> Token(STRING_T, r.literal, l.line, l.column)])
      [] l.ch = NUL ->
            [l |-> l, tok |-> Token(EOF, "", l.line, l.column)]
      [] isLetter(l.ch) ->
            Then(readIdentifier(l), LAMBDA r :
                [l |-> r.l,
                 tok |-> Token(LookupIdent(r.literal), r.literal, l.line, l.column)])
      [] isDigit(l.ch) ->
            Then(readNumber(l), LAMBDA r :
                [l |-> r.l, tok |-> Token(r.type, r.literal, l.line, l.column)])
      [] OTHER ->
            [l |-> readChar(l), tok |-> newToken(ILLEGAL, l.ch, l.line, l.column)]

\* A NextToken whose EOF case goes on to the readChar after the switch.
NextTokenPastEOF(l) ==
    Then(scanToken(skipWhitespaceAndComments(l)), LAMBDA r :
        IF r.tok.type = EOF THEN [l |-> readChar(r.l), tok |-> r.tok] ELSE r)

\* NextToken: the lexer after the call and the token returned.
NextToken(l) == scanToken(skipWhitespaceAndComments(l))

(***************************************************************************)
(* NextToken called again and again on one lexer, once more after the      *)
(* first EOF token.                                                        *)
(***************************************************************************)
MaxInput == 3

LexAlphabet ==
    {"&", "|", "=", "!", "<", "a", "_", "1", ".", " ", "\n", "/", "\"", "@", NUL}

LexInputs == SeqsUpTo(LexAlphabet, MaxInput)

InitLex ==
    /\ mode = "lex"
    /\ input \in LexInputs
    /\ lx = NewLexer(input)
    /\ toks = <<>>
    /\ program = <<>> /\ idx = 0 /\ phase = "" /\ es = <<>>
    /\ frames = <<>> /\ last = <<>> /\ parser = <<>>

LexNextToken ==
    /\ mode = "lex"
    /\ ~(Len(toks) >= 2 /\ toks[Len(toks)].type = EOF /\ toks[Len(toks) - 1].type = EOF)
    /\ LET r == NextToken(lx)
       IN /\ lx' = r.l
          /\ toks' = Append(toks, r.tok)
    /\ UNCHANGED <<mode, evalVars, envVars, input, parser>>

NextLex == LexNextToken

SpecLex == InitLex /\ [][NextLex]_vars

\* The input starts with the characters of w.
StartsWith(inp, w) == Len(inp) >= Len(w) /\ SubSeq(inp, 1, Len(w)) = w

\* C7 (as claimed): the first token of an input that starts with && is the
\* AND token "&&", of one that starts with || the OR token "||", and of one
\* that starts with a single & the ILLEGAL token "&", each at line 1,
\* column 1.
C7_LogicalOperatorTokens ==
    (mode = "lex" /\ Len(toks) >= 1) =>
        /\ StartsWith(input, <<"&", "&">>) => toks[1] = Token(AND, "&&", 1, 1)
        /\ StartsWith(input, <<"|", "|">>) => toks[1] = Token(OR, "||", 1, 1)
        /\ (StartsWith(input, <<"&">>) /\ ~StartsWith(input, <<"&", "&">>)) =>
                toks[1] = Token(ILLEGAL, "&", 1, 1)

(***************************************************************************)
(* The parser (internal/parser).  A Parser is a record: its lexer l, the   *)
(* two buffered tokens and the error list, and seven history fields:       *)
(*   consumed  the number of nextToken calls that moved past a token       *)
(*             other than EOF                                              *)
(*   dropped   the number of addError calls the cap ignored                *)
(*   refused   the number of expectPeek calls that returned false          *)
(*   syncs     the calls of synchronize: the tokens, the lexer and the     *)
(*             count of consumed tokens on entry and on return             *)
(*   stalled   a block's statement loop finished an iteration that neither *)
(*             consumed a token nor left the loop (the Go loop would then  *)
(*             repeat that iteration; the model stops there)               *)
(*   inner     the number of errors recorded inside the parseStatement     *)
(*             calls that have returned                                    *)
(*   flawed    the statements parseStatement returned as other than the    *)
(*             nil interface although an error was recorded during the     *)
(*             call and outside the parseStatement calls nested in it      *)
(* A parse function yields the parser after it and the node it returns.    *)
(* Go's two kinds of nil are kept apart: Nil is the nil interface value,   *)
(* NilOf(T) the nil *ast.T, which is not equal to nil once it is stored in *)
(* an ast.Expression or ast.Statement.                                     *)
(***************************************************************************)
MaxErrors == 20

NilOf(type) == [k |-> "nil", type |-> type]

ParseError(message, line, column) == [message |-> message, line |-> line, column |-> column]

nextToken(p) ==
    Then(NextToken(p.l), LAMBDA r :
        [p EXCEPT !.curToken = p.peekToken, !.peekToken = r.tok, !.l = r.l,
                  !.consumed = IF p.curToken.type \in {EOF, ""} THEN @ ELSE @ + 1])

NewParser(l) ==
    nextToken(nextToken([l |-> l, curToken |-> Token("", "", 0, 0),
                         peekToken |-> Token("", "", 0, 0), errors |-> <<>>,
                         consumed |-> 0, dropped |-> 0, refused |-> 0,
                         syncs |-> <<>>, stalled |-> FALSE,
                         inner |-> 0, flawed |-> {}]))

curTokenIs(p, t) == p.curToken.type = t

peekTokenIs(p, t) == p.peekToken.type = t

\* An addError without the test of len(p.errors) against MaxErrors.
addErrorUncapped(p, line, column, message) ==
    [p EXCEPT !.errors = Append(@, ParseError(message, line, column))]

addError(p, line, column, message) ==
    IF Len(p.errors) >= MaxErrors
    THEN [p EXCEPT !.dropped = @ + 1]
    ELSE [p EXCEPT !.errors = Append(@, ParseError(message, line, column))]

curError(p, message) == addError(p, p.curToken.line, p.curToken.column, message)

peekError(p, expected) ==
    addError(p, p.peekToken.line, p.peekToken.column,
             "expected " \o expected \o ", got " \o p.peekToken.type)

expectPeek(p, t) ==
    IF peekTokenIs(p, t) THEN [p |-> nextToken(p), ok |-> TRUE]
    ELSE [p |-> [peekError(p, t) EXCEPT !.refused = @ + 1], ok |-> FALSE]

StatementStarts == {FUNCTION, IF_T, FOR, RETURN, PROFILE, REGION}

RECURSIVE synchronize(_)
\* A synchronize that also consumes the token after the semicolon.
RECURSIVE synchronizePast(_)
synchronizePast(p) ==
    IF curTokenIs(p, EOF) THEN p
    ELSE IF p.curToken.type = SEMICOLON THEN nextToken(nextToken(p))
    ELSE IF p.peekToken.type \in StatementStarts THEN nextToken(p)
    ELSE synchronizePast(nextToken(p))

\* A synchronize that consumes nothing.
synchronizeStay(p) == p

\* A synchronize that stops at the semicolon or the keyword.
RECURSIVE synchronizeAt(_)
synchronizeAt(p) ==
    IF curTokenIs(p, EOF) THEN p
    ELSE IF p.peekToken.type \in StatementStarts \cup {SEMICOLON} THEN nextToken(p)
    ELSE synchronizeAt(nextToken(p))

synchronize(p) ==
    IF curTokenIs(p, EOF) THEN p
    ELSE IF p.curToken.type = SEMICOLON THEN nextToken(p)
    ELSE IF p.peekToken.type \in StatementStarts THEN nextToken(p)
    ELSE synchronize(nextToken(p))

\* %q of a literal.
Quote(str) == "\"" \o str \o "\""

(***************************************************************************)
(* fmt.Sscanf of a literal the lexer produced (digits, or digits "."       *)
(* digits), for the literals up to MaxLiteral in each part.  Sscanf fails  *)
(* on such a literal only when it overflows, which no literal this small   *)
(* does; a larger literal has no value here.                               *)
(***************************************************************************)
MaxLiteral == 20
MaxZeros == 2

RECURSIVE Zeros(_)
Zeros(n) == IF n = 0 THEN "" ELSE "0" \o Zeros(n - 1)

RECURSIVE Pow10(_)
Pow10(n) == IF n = 0 THEN 1 ELSE 10 * Pow10(n - 1)

RECURSIVE NumDigits(_)
NumDigits(n) == IF n < 10 THEN 1 ELSE 1 + NumDigits(n \div 10)

ScanInt(literal) ==
    CHOOSE n \in 0..MaxLiteral : \E z \in 0..MaxZeros : Zeros(z) \o ToString(n) = literal

ScanFloat(literal) ==
    LET parts == CHOOSE q \in (0..MaxLiteral) \X (0..MaxZeros) \X (0..MaxLiteral) :
                    \E z \in 0..MaxZeros :
                        Zeros(z) \o ToString(q[1]) \o "." \o Zeros(q[2]) \o ToString(q[3])
                            = literal
        scale == Pow10(parts[2] + NumDigits(parts[3]))
    IN Float(parts[1] * scale + parts[3], scale)

RECURSIVE parseStatement(_), parseBlockStatement(_), parseBlockFrom(_, _),
          parseLevel(_, _), parseLevelFrom(_, _, _), parseUnary(_), parsePostfix(_),
          parsePostfixFrom(_, _), parsePrimary(_), parseArgumentListFrom(_, _),
          parseListLiteralFrom(_, _), parseObjectLiteralFrom(_, _)

\* What a parse function yields.
Parsed(p, node) == [p |-> p, node |-> node]

(***************************************************************************)
(* Expressions.  parseOr, parseAnd, parseEquality, parseComparison,        *)
(* parseTerm and parseFactor are one function six times over: level n      *)
(* parses level n + 1 operands joined by its own operators.                *)
(***************************************************************************)
UnaryLevel == 7

\* A grammar in which + and - bind tighter than * and /.
LevelOperatorsSwapped(level) ==
    CASE level = 1 -> {OR}
      [] level = 2 -> {AND}
      [] level = 3 -> {EQ, NOT_EQ}
      [] level = 4 -> {LT, GT, LTE, GTE}
      [] level = 5 -> {ASTERISK, SLASH}
      [] level = 6 -> {PLUS, MINUS}

LevelOperators(level) ==
    CASE level = 1 -> {OR}
      [] level = 2 -> {AND}
      [] level = 3 -> {EQ, NOT_EQ}
      [] level = 4 -> {LT, GT, LTE, GTE}
      [] level = 5 -> {PLUS, MINUS}
      [] level = 6 -> {ASTERISK, SLASH}

parseLevelFrom(p, level, left) ==
    IF p.peekToken.type \in LevelOperators(level)
    THEN Then(nextToken(p), LAMBDA p1 :
         Then(parseLevel(nextToken(p1), level + 1), LAMBDA r :
            IF r.node = Nil THEN Parsed(r.p, Nil)
            ELSE parseLevelFrom(r.p, level,
                                InfixExpression(p1.curToken, left, p1.curToken.literal,
                                                r.node))))
    ELSE Parsed(p, left)

parseLevel(p, level) ==
    IF level = UnaryLevel THEN parseUnary(p)
    ELSE Then(parseLevel(p, level + 1), LAMBDA r :
            IF r.node = Nil THEN Parsed(r.p, Nil)
            ELSE parseLevelFrom(r.p, level, r.node))

parseOr(p) == parseLevel(p, 1)
parseAnd(p) == parseLevel(p, 2)
parseEquality(p) == parseLevel(p, 3)
parseComparison(p) == parseLevel(p, 4)
parseTerm(p) == parseLevel(p, 5)
parseFactor(p) == parseLevel(p, 6)

parseExpression(p) == parseOr(p)

parseUnary(p) ==
    IF curTokenIs(p, BANG) \/ curTokenIs(p, MINUS)
    THEN Then(parseUnary(nextToken(p)), LAMBDA r :
            IF r.node = Nil THEN Parsed(r.p, Nil)
            ELSE Parsed(r.p, PrefixExpression(p.curToken, p.curToken.literal, r.node)))
    ELSE parsePostfix(p)

parsePostfix(p) ==
    Then(parsePrimary(p), LAMBDA r :
        IF r.node = Nil THEN Parsed(r.p, Nil) ELSE parsePostfixFrom(r.p, r.node))

parseArgument(p) ==
    IF curTokenIs(p, IDENT) /\ peekTokenIs(p, COLON)
    THEN Then(parseExpression(nextToken(nextToken(p))), LAMBDA r :
            IF r.node = Nil THEN Parsed(r.p, NilOf("Argument"))
            ELSE Parsed(r.p, Argument(Identifier(p.curToken, p.curToken.literal), r.node)))
    ELSE Then(parseExpression(p), LAMBDA r :
            IF r.node = Nil THEN Parsed(r.p, NilOf("Argument"))
            ELSE Parsed(r.p, Argument(Nil, r.node)))

\* The loop of parseArgumentList; it yields the parser and the arguments.
parseArgumentListFrom(p, args) ==
    IF peekTokenIs(p, COMMA)
    THEN Then(parseArgument(nextToken(nextToken(p))), LAMBDA r :
            IF r.node = NilOf("Argument") THEN Parsed(r.p, args)
            ELSE parseArgumentListFrom(r.p, Append(args, r.node)))
    ELSE Parsed(p, args)

parseArgumentList(p) ==
    IF peekTokenIs(p, RPAREN) THEN Parsed(p, <<>>)
    ELSE Then(parseArgument(nextToken(p)), LAMBDA r :
            IF r.node = NilOf("Argument") THEN Parsed(r.p, <<>>)
            ELSE parseArgumentListFrom(r.p, <<r.node>>))

parseCallExpression(p, function) ==
    Then(parseArgumentList(p), LAMBDA a :
    Then(expectPeek(a.p, RPAREN), LAMBDA e :
        IF ~e.ok THEN Parsed(e.p, NilOf("CallExpression"))
        ELSE Parsed(e.p, CallExpression(p.curToken, function, a.node))))

parseIndexExpression(p, left) ==
    Then(parseExpression(nextToken(p)), LAMBDA r :
        IF r.node = Nil THEN Parsed(r.p, NilOf("IndexExpression"))
        ELSE Then(expectPeek(r.p, RBRACKET), LAMBDA e :
                IF ~e.ok THEN Parsed(e.p, NilOf("IndexExpression"))
                ELSE Parsed(e.p, IndexExpression(p.curToken, left, r.node))))

parseMemberExpression(p, object) ==
    Then(expectPeek(p, IDENT), LAMBDA e :
        IF ~e.ok THEN Parsed(e.p, NilOf("MemberExpression"))
        ELSE Parsed(e.p, MemberExpression(p.curToken, object,
                                          Identifier(e.p.curToken, e.p.curToken.literal))))

parsePipeExpression(p, left) ==
    Then(expectPeek(p, IDENT), LAMBDA e1 :
        IF ~e1.ok THEN Parsed(e1.p, NilOf("PipeExpression"))
        ELSE IF e1.p.curToken.literal # "format"
        THEN Parsed(curError(e1.p, "expected 'format' after pipe, got "
                                       \o Quote(e1.p.curToken.literal)),
                    NilOf("PipeExpression"))
        ELSE Then(expectPeek(e1.p, IDENT), LAMBDA e2 :
                IF ~e2.ok THEN Parsed(e2.p, NilOf("PipeExpression"))
                ELSE IF e2.p.curToken.literal \notin {"csv", "table"}
                THEN Parsed(curError(e2.p, "expected 'csv' or 'table', got "
                                               \o Quote(e2.p.curToken.literal)),
                            NilOf("PipeExpression"))
                ELSE Parsed(e2.p, PipeExpression(p.curToken, left,
                                                 e2.p.curToken.literal))))

\* One postfix of parsePostfix's loop, the parser being on its first token.
parseOnePostfix(p, left) ==
    CASE curTokenIs(p, LPAREN) -> parseCallExpression(p, left)
      [] curTokenIs(p, LBRACKET) -> parseIndexExpression(p, left)
      [] curTokenIs(p, DOT) -> parseMemberExpression(p, left)
      [] curTokenIs(p, PIPE) -> parsePipeExpression(p, left)

\* The loop of parsePostfix.  A failed postfix yields a nil pointer, which
\* the ast.Expression left holds as a value other than nil: the loop goes on.
parsePostfixFrom(p, left) ==
    IF p.peekToken.type \in {LPAREN, LBRACKET, DOT, PIPE}
    THEN Then(parseOnePostfix(nextToken(p), left), LAMBDA r :
            IF r.node = Nil THEN Parsed(r.p, Nil) ELSE parsePostfixFrom(r.p, r.node))
    ELSE Parsed(p, left)

parseIntegerLiteral(p) ==
    Parsed(p, IntegerLiteral(p.curToken, ScanInt(p.curToken.literal)))

parseFloatLiteral(p) ==
    Then(ScanFloat(p.curToken.literal), LAMBDA v :
        Parsed(p, FloatLiteral(p.curToken, v.num, v.den)))

parseGroupedExpression(p) ==
    Then(parseExpression(nextToken(p)), LAMBDA r :
        IF r.node = Nil THEN Parsed(r.p, NilOf("GroupedExpression"))
        ELSE Then(expectPeek(r.p, RPAREN), LAMBDA e :
                IF ~e.ok THEN Parsed(e.p, NilOf("GroupedExpression"))
                ELSE Parsed(e.p, GroupedExpression(p.curToken, r.node))))

\* The loop of parseListLiteral and what follows it.
parseListLiteralFrom(p, lit) ==
    IF peekTokenIs(p, COMMA)
    THEN Then(parseExpression(nextToken(nextToken(p))), LAMBDA r :
            IF r.node = Nil THEN Parsed(r.p, NilOf("ListLiteral"))
            ELSE parseListLiteralFrom(r.p, [lit EXCEPT !.elements = Append(@, r.node)]))
    ELSE Then(expectPeek(p, RBRACKET), LAMBDA e :
            IF ~e.ok THEN Parsed(e.p, NilOf("ListLiteral")) ELSE Parsed(e.p, lit))

parseListLiteral(p) ==
    IF peekTokenIs(p, RBRACKET)
    THEN Parsed(nextToken(p), ListLiteral(p.curToken, <<>>))
    ELSE Then(parseExpression(nextToken(p)), LAMBDA r :
            IF r.node = Nil THEN Parsed(r.p, NilOf("ListLiteral"))
            ELSE parseListLiteralFrom(r.p, ListLiteral(p.curToken, <<r.node>>)))

parseObjectPair(p) ==
    Then(expectPeek(p, IDENT), LAMBDA e1 :
        IF ~e1.ok THEN Parsed(e1.p, NilOf("ObjectPair"))
        ELSE Then(expectPeek(e1.p, COLON), LAMBDA e2 :
                IF ~e2.ok THEN Parsed(e2.p, NilOf("ObjectPair"))
                ELSE Then(parseExpression(nextToken(e2.p)), LAMBDA r :
                        IF r.node = Nil THEN Parsed(r.p, NilOf("ObjectPair"))
                        ELSE Parsed(r.p,
                                    ObjectPair(Identifier(e1.p.curToken,
                                                          e1.p.curToken.literal),
                                               r.node)))))

\* The loop of parseObjectLiteral and what follows it.
parseObjectLiteralFrom(p, lit) ==
    IF peekTokenIs(p, COMMA)
    THEN Then(parseObjectPair(nextToken(p)), LAMBDA r :
            IF r.node = NilOf("ObjectPair") THEN Parsed(r.p, NilOf("ObjectLiteral"))
            ELSE parseObjectLiteralFrom(r.p, [lit EXCEPT !.pairs = Append(@, r.node)]))
    ELSE Then(expectPeek(p, RBRACE), LAMBDA e :
            IF ~e.ok THEN Parsed(e.p, NilOf("ObjectLiteral")) ELSE Parsed(e.p, lit))

parseObjectLiteral(p) ==
    IF peekTokenIs(p, RBRACE)
    THEN Parsed(nextToken(p), ObjectLiteral(p.curToken, <<>>))
    ELSE Then(parseObjectPair(p), LAMBDA r :
            IF r.node = NilOf("ObjectPair") THEN Parsed(r.p, NilOf("ObjectLiteral"))
            ELSE parseObjectLiteralFrom(r.p, ObjectLiteral(p.curToken, <<r.node>>)))

parsePrimary(p) ==
    CASE curTokenIs(p, IDENT) -> Parsed(p, Identifier(p.curToken, p.curToken.literal))
      [] curTokenIs(p, INT) -> parseIntegerLiteral(p)
      [] curTokenIs(p, FLOAT) -> parseFloatLiteral(p)
      [] curTokenIs(p, STRING_T) ->
            Parsed(p, StringLiteral(p.curToken, p.curToken.literal))
      [] curTokenIs(p, TRUE_T) -> Parsed(p, BooleanLiteral(p.curToken, TRUE))
      [] curTokenIs(p, FALSE_T) -> Parsed(p, BooleanLiteral(p.curToken, FALSE))
      [] curTokenIs(p, NULL_T) -> Parsed(p, NullLiteral(p.curToken))
      [] curTokenIs(p, LPAREN) -> parseGroupedExpression(p)
      [] curTokenIs(p, LBRACKET) -> parseListLiteral(p)
      [] curTokenIs(p, LBRACE) -> parseObjectLiteral(p)
      [] OTHER -> Parsed(curError(p, "unexpected token " \o p.curToken.type), Nil)

(***************************************************************************)
(* Statements.  A statement parser that fails synchronizes and returns a   *)
(* nil pointer; parseStatement hands it on as an ast.Statement, so its     *)
(* callers' "stmt != nil" holds for it too.                                *)
(***************************************************************************)
\* History: synchronize was called on p and returned q.
Reading(p) ==
    [curToken |-> p.curToken, peekToken |-> p.peekToken, l |-> p.l,
     consumed |-> p.consumed]

NoteSync(q, p) ==
    [q EXCEPT !.syncs = Append(@, [from |-> Reading(p), to |-> Reading(q)])]

Fail(p, type) ==
    Then(synchronize(p), LAMBDA q : Parsed(NoteSync(q, p), NilOf(type)))

\* expectPeek(t), and the failure exit of the statement parsers after it.
Expect(p, t, type, F(_)) ==
    Then(expectPeek(p, t), LAMBDA e : IF ~e.ok THEN Fail(e.p, type) ELSE F(e.p))

\* parseExpression, and the failure exit of the statement parsers after it.
Expression(p, type, F(_)) ==
    Then(parseExpression(p), LAMBDA r : IF r.node = Nil THEN Fail(r.p, type) ELSE F(r))

\* parseBlockStatement, and the exit of the statement parsers on a nil block.
Block(p, type, F(_)) ==
    Then(parseBlockStatement(p), LAMBDA b :
        IF b.node = NilOf("BlockStatement") THEN Parsed(b.p, NilOf(type)) ELSE F(b))

parseContextStatement(p) ==
    Expect(p, STRING_T, "ContextStatement", LAMBDA p1 :
    Expect(p1, SEMICOLON, "ContextStatement", LAMBDA p2 :
        Parsed(nextToken(p2), ContextStatement(p.curToken, p1.curToken.literal))))

parseAssignmentStatement(p) ==
    Expect(p, ASSIGN, "AssignmentStatement", LAMBDA p1 :
    Expression(nextToken(p1), "AssignmentStatement", LAMBDA r :
    Expect(r.p, SEMICOLON, "AssignmentStatement", LAMBDA p2 :
        Parsed(nextToken(p2),
               AssignmentStatement(p.curToken,
                                   Identifier(p.curToken, p.curToken.literal), r.node)))))

parseIfStatement(p) ==
    Expect(p, LPAREN, "IfStatement", LAMBDA p1 :
    Expression(nextToken(p1), "IfStatement", LAMBDA c :
    Expect(c.p, RPAREN, "IfStatement", LAMBDA p2 :
    Expect(p2, LBRACE, "IfStatement", LAMBDA p3 :
    Block(p3, "IfStatement", LAMBDA cons :
        IF ~curTokenIs(cons.p, ELSE_T)
        THEN Parsed(cons.p, IfStatement(p.curToken, c.node, cons.node, Nil))
        ELSE Expect(cons.p, LBRACE, "IfStatement", LAMBDA p4 :
             Block(p4, "IfStatement", LAMBDA alt :
                Parsed(alt.p, IfStatement(p.curToken, c.node, cons.node, alt.node)))))))))

parseForStatement(p) ==
    Expect(p, LPAREN, "ForStatement", LAMBDA p1 :
    Expect(p1, IDENT, "ForStatement", LAMBDA p2 :
    Expect(p2, IN_T, "ForStatement", LAMBDA p3 :
    Expression(nextToken(p3), "ForStatement", LAMBDA it :
    Expect(it.p, RPAREN, "ForStatement", LAMBDA p4 :
    Expect(p4, LBRACE, "ForStatement", LAMBDA p5 :
    Block(p5, "ForStatement", LAMBDA body :
        Parsed(body.p,
               ForStatement(p.curToken, Identifier(p2.curToken, p2.curToken.literal),
                            it.node, body.node)))))))))

parseReturnStatement(p) ==
    Then(nextToken(p), LAMBDA p1 :
        IF curTokenIs(p1, SEMICOLON)
        THEN Parsed(nextToken(p1), ReturnStatement(p.curToken, Nil))
        ELSE Expression(p1, "ReturnStatement", LAMBDA r :
             Expect(r.p, SEMICOLON, "ReturnStatement", LAMBDA p2 :
                Parsed(nextToken(p2), ReturnStatement(p.curToken, r.node)))))

\* The loop of parseParameterList; it yields the parser and the parameters.
RECURSIVE parseParameterListFrom(_, _)
parseParameterListFrom(p, params) ==
    IF peekTokenIs(p, COMMA)
    THEN Then(expectPeek(nextToken(p), IDENT), LAMBDA e :
            IF ~e.ok THEN Parsed(e.p, params)
            ELSE parseParameterListFrom(
                     e.p, Append(params, Identifier(e.p.curToken, e.p.curToken.literal))))
    ELSE Parsed(p, params)

parseParameterList(p) ==
    IF peekTokenIs(p, RPAREN) THEN Parsed(p, <<>>)
    ELSE Then(expectPeek(p, IDENT), LAMBDA e :
            IF ~e.ok THEN Parsed(e.p, <<>>)
            ELSE parseParameterListFrom(
                     e.p, <<Identifier(e.p.curToken, e.p.curToken.literal)>>))

parseFunctionDeclaration(p) ==
    Expect(p, IDENT, "FunctionDeclaration", LAMBDA p1 :
    Expect(p1, LPAREN, "FunctionDeclaration", LAMBDA p2 :
    Then(parseParameterList(p2), LAMBDA params :
    Expect(params.p, RPAREN, "FunctionDeclaration", LAMBDA p3 :
    Expect(p3, LBRACE, "FunctionDeclaration", LAMBDA p4 :
    Block(p4, "FunctionDeclaration", LAMBDA body :
        Parsed(body.p,
               FunctionDeclaration(p.curToken,
                                   Identifier(p1.curToken, p1.curToken.literal),
                                   params.node, body.node))))))))

\* The loop of parseBlockStatement; it yields the parser and the statements.
parseBlockFrom(p, stmts) ==
    IF ~curTokenIs(p, RBRACE) /\ ~curTokenIs(p, EOF) /\ Len(p.errors) < MaxErrors
    THEN Then(parseStatement(p), LAMBDA r :
            IF r.p.consumed = p.consumed
            THEN Parsed([r.p EXCEPT !.stalled = TRUE],
                        IF r.node # Nil THEN Append(stmts, r.node) ELSE stmts)
            ELSE parseBlockFrom(r.p, IF r.node # Nil THEN Append(stmts, r.node)
                                     ELSE stmts))
    ELSE Parsed(p, stmts)

parseBlockStatement(p) ==
    Then(parseBlockFrom(nextToken(p), <<>>), LAMBDA r :
        IF ~curTokenIs(r.p, RBRACE)
        THEN Parsed(curError(r.p, "expected }, got " \o r.p.curToken.type),
                    NilOf("BlockStatement"))
        ELSE Parsed(nextToken(r.p), BlockStatement(p.curToken, r.node)))

parseExpressionStatement(p) ==
    Expression(p, "ExpressionStatement", LAMBDA r :
    Expect(r.p, SEMICOLON, "ExpressionStatement", LAMBDA p1 :
        Parsed(nextToken(p1), ExpressionStatement(p.curToken, r.node))))

\* History: r is what a parseStatement call on p returns.
NoteStatement(p, r) ==
    LET total == Len(r.p.errors) - Len(p.errors)
        own == total - (r.p.inner - p.inner)
    IN Parsed([r.p EXCEPT !.inner = p.inner + total,
                          !.flawed = IF r.node # Nil /\ own > 0
                                     THEN @ \cup {r.node} ELSE @],
              r.node)

parseStatement(p) ==
    NoteStatement(p,
        CASE p.curToken.type \in {PROFILE, REGION} -> parseContextStatement(p)
          [] curTokenIs(p, IF_T) -> parseIfStatement(p)
          [] curTokenIs(p, FOR) -> parseForStatement(p)
          [] curTokenIs(p, RETURN) -> parseReturnStatement(p)
          [] curTokenIs(p, FUNCTION) -> parseFunctionDeclaration(p)
          [] curTokenIs(p, IDENT) /\ peekTokenIs(p, ASSIGN) -> parseAssignmentStatement(p)
          [] OTHER -> parseExpressionStatement(p))

(***************************************************************************)
(* ParseProgram on a fresh parser: one iteration of its loop per step.     *)
(* The inputs are words separated by blanks: every sequence of a few       *)
(* words, runs of the failing statement "@ ;" long enough to reach the     *)
(* error cap, at the top level and inside a block, and sample programs     *)
(* for the productions the short sequences do not complete.                *)
(***************************************************************************)
MaxWords == 3
MaxRepeat == 21

Spell(w) ==
    CASE w = "if" -> <<"i", "f">>
      [] w = "fn" -> <<"f", "n">>
      [] w = "in" -> <<"i", "n">>
      [] w = "for" -> <<"f", "o", "r">>
      [] w = "else" -> <<"e", "l", "s", "e">>
      [] w = "true" -> <<"t", "r", "u", "e">>
      [] w = "null" -> <<"n", "u", "l", "l">>
      [] w = "return" -> <<"r", "e", "t", "u", "r", "n">>
      [] w = "region" -> <<"r", "e", "g", "i", "o", "n">>
      [] w = "format" -> <<"f", "o", "r", "m", "a", "t">>
      [] w = "csv" -> <<"c", "s", "v">>
      [] w = "table" -> <<"t", "a", "b", "l", "e">>
      [] w = "xml" -> <<"x", "m", "l">>
      [] w = "fmt" -> <<"f", "m", "t">>
      [] w = "1.5" -> <<"1", ".", "5">>
      [] w = "\"s\"" -> <<"\"", "s", "\"">>
      [] w = "==" -> <<"=", "=">>
      [] w = "!=" -> <<"!", "=">>
      [] w = "<=" -> <<"<", "=">>
      [] w = "&&" -> <<"&", "&">>
      [] w = "||" -> <<"|", "|">>
      [] OTHER -> <<w>>

RECURSIVE Source(_)
Source(ws) ==
    IF ws = <<>> THEN <<>>
    ELSE IF Len(ws) = 1 THEN Spell(ws[1])
    ELSE Spell(ws[1]) \o <<" ">> \o Source(Tail(ws))

RECURSIVE Repeat(_, _)
Repeat(ws, n) == IF n = 0 THEN <<>> ELSE ws \o Repeat(ws, n - 1)

Words == {"x", "=", "1", ";", "(", ")", "{", "}", "@", "if", "return", "fn"}

Tails ==
    {<<>>, <<"@">>, <<"(", "@", ")", ";">>, <<"x", "=", "1", ";">>,
     <<"if", "(", "x", ")", "{", "@", ";", "@", ";", "}">>}

Samples ==
    {<<"x", "=", "1", "+", "1", "*", "1.5", ";", "y", "=", "-", "x", ";">>,
     <<"if", "(", "x", "<", "1", ")", "{", "y", "=", "1", ";", "}", "else", "{", "}">>,
     <<"for", "(", "i", "in", "[", "1", ",", "1", "]", ")", "{", "f", "(", "i", ",",
       "k", ":", "1", ")", ";", "}">>,
     <<"fn", "f", "(", "a", ",", "b", ")", "{", "return", "a", ";", "return", ";", "}">>,
     <<"x", "=", "{", "a", ":", "1", ",", "b", ":", "\"s\"", "}", ".", "a", "[", "1",
       "]", "|", "format", "csv", ";">>,
     <<"region", "\"s\"", ";", "true", "==", "!", "null", ";">>,
     <<"true", "||", "false", "&&", "false", ";">>,
     <<"f", "(", "@", ";", "x", "=", "1", ";">>,
     <<"fn", "f", "(", "a", ",", ")", "{", "}", "x", "=", "1", ";">>,
     <<"fn", "f", "(", ")", "{", "if", "(", "x", ")", "{", "@", "}", "y", ";", "}">>}

RepeatInputs ==
    {Repeat(<<"@", ";">>, n) \o t : n \in 0..MaxRepeat, t \in Tails}
        \cup {<<"fn", "f", "(", ")", "{">> \o Repeat(<<"@", ";">>, n) \o <<"}">>
                : n \in 0..MaxRepeat}

(***************************************************************************)
(* Inputs for error recovery: a few statements, each ending in its own     *)
(* semicolon, some well-formed and some malformed.  The malformed ones     *)
(* are made of the tokens of assignment and expression statements (no      *)
(* statement keyword, no block).                                           *)
(***************************************************************************)
MaxRecover == 3

GoodStatements ==
    {<<"x", "=", "1", ";">>, <<"f", "(", "x", ")", ";">>, <<"y", ";">>}

BadStatements ==
    {<<"x", "=", ";">>, <<"=", "1", ";">>, <<"x", "=", "1", "1", ";">>,
     <<"x", "=", "(", "1", ";">>, <<"x", "=", "f", "(", ";">>, <<"1", "+", ";">>,
     <<"@", ";">>, <<"x", "=", "{", "a", ":", ";">>, <<"x", ".", ";">>,
     <<"x", "=", "[", "1", ",", ";">>, <<"x", "|", ";">>}

RECURSIVE Concat(_)
Concat(ss) == IF ss = <<>> THEN <<>> ELSE ss[1] \o Concat(Tail(ss))

RecoveryInputs ==
    {Concat(ss) : ss \in SeqsUpTo(GoodStatements \cup BadStatements, MaxRecover)}

\* x | a b; y; for a word a that is "format", another identifier or no
\* identifier, and a word b that is a format name, another identifier or no
\* identifier.
PipeWords == {"format", "fmt", "1"}
FormatWords == {"csv", "table", "xml", "1"}
PipeStatement(a, b) == <<"x", "|", a, b, ";", "y", ";">>
PipeInputs == {PipeStatement(a, b) : a \in PipeWords, b \in FormatWords}

\* a op b op c; for every two binary operators below && and ||, a unary
\* operator before either operand of a binary one, two unary operators, and
\* an expression with five binary operators.
BinaryWords == {"==", "!=", "<", ">", "<=", "+", "-", "*", "/"}
UnaryWords == {"!", "-"}
LongExpression == <<"a", "+", "b", "*", "c", "+", "d", "/", "e", "-", "f", ";">>

PrecedenceInputs ==
    {<<"a", o1, "b", o2, "c", ";">> : o1 \in BinaryWords, o2 \in BinaryWords}
    \cup {<<u, "a", o, "b", ";">> : u \in UnaryWords, o \in BinaryWords}
    \cup {<<"a", o, u, "b", ";">> : u \in UnaryWords, o \in BinaryWords}
    \cup {<<u1, u2, "a", ";">> : u1 \in UnaryWords, u2 \in UnaryWords}
    \cup {LongExpression}

ParseInputs ==
    {Source(ws) : ws \in SeqsUpTo(Words, MaxWords) \cup RepeatInputs \cup Samples
                      \cup RecoveryInputs \cup PipeInputs \cup PrecedenceInputs}

InitParse ==
    /\ mode = "parse"
    /\ input \in ParseInputs
    /\ parser = NewParser(NewLexer(input))
    /\ program = <<>>
    /\ idx = 1
    /\ phase = "parse"
    /\ es = <<>> /\ frames = <<>> /\ last = <<>> /\ lx = <<>> /\ toks = <<>>

\* One iteration of ParseProgram's loop.
ParseStatement ==
    /\ mode = "parse"
    /\ phase = "parse"
    /\ ~curTokenIs(parser, EOF)
    /\ Len(parser.errors) < MaxErrors
    /\ \E r \in {parseStatement(parser)} :
          /\ parser' = r.p
          /\ program' = IF r.node # Nil THEN Append(program, r.node) ELSE program
          /\ phase' = IF r.p.stalled THEN "hung" ELSE "parse"
    /\ idx' = idx + 1
    /\ UNCHANGED <<mode, input, es, envVars, lexVars>>

\* The loop is over: ParseProgram returns the program.
ParseReturn ==
    /\ mode = "parse"
    /\ phase = "parse"
    /\ curTokenIs(parser, EOF) \/ Len(parser.errors) >= MaxErrors
    /\ phase' = "done"
    /\ UNCHANGED <<mode, input, program, idx, parser, es, envVars, lexVars>>

NextParse == ParseStatement \/ ParseReturn

SpecParse == InitParse /\ [][NextParse]_vars

(***************************************************************************)
(* ParseProgram as a whole: the loop of ParseStatement steps up to         *)
(* ParseReturn, for the parses a property compares a run with.             *)
(***************************************************************************)
RECURSIVE ParseProgramFrom(_, _)
ParseProgramFrom(p, stmts) ==
    IF curTokenIs(p, EOF) \/ Len(p.errors) >= MaxErrors THEN [p |-> p, program |-> stmts]
    ELSE Then(parseStatement(p), LAMBDA r :
            ParseProgramFrom(r.p, IF r.node # Nil THEN Append(stmts, r.node) ELSE stmts))

ParseProgram(inp) == ParseProgramFrom(NewParser(NewLexer(inp)), <<>>)

\* C9: ParseProgram returns: no iteration of a block's statement loop ends
\* without having consumed a token or left the loop, every iteration of the
\* top-level loop consumes at least one token, and the tokens consumed are
\* never more than the input has characters, which bounds the iterations
\* of every loop.
C9_ParseProgramTerminates ==
    /\ [](mode = "parse" =>
            /\ phase \in {"parse", "done"}
            /\ ~parser.stalled
            /\ parser.consumed <= Len(input)
            /\ idx <= parser.consumed + 1)
    /\ [][idx' = idx + 1 => parser'.consumed > parser.consumed]_vars

\* ParseProgram returned at EOF after two or more iterations that recorded
\* errors, at least one of them raised inside a block.
C9_Witness ==
    /\ mode = "parse" /\ phase = "done"
    /\ curTokenIs(parser, EOF)
    /\ idx >= 3
    /\ Len(parser.errors) >= 2
    /\ \E k \in 1..Len(program) : program[k] = NilOf("IfStatement")

\* C10: the parser never holds more than MaxErrors errors.
C10_ErrorsCapped == mode = "parse" => Len(parser.errors) <= MaxErrors

\* The cap is reached and an error was dropped because of it.
C10_Witness ==
    /\ mode = "parse"
    /\ Len(parser.errors) = MaxErrors
    /\ parser.dropped > 0

(***************************************************************************)
(* Error recovery.  The statements of an input are its stretches up to     *)
(* and including each semicolon.                                           *)
(***************************************************************************)
RecoverySources == {Source(ws) : ws \in RecoveryInputs}

GoodSources == {Source(ws) : ws \in GoodStatements}

Semicolons(inp) == {i \in 1..Len(inp) : inp[i] = ";"}

Max(S) == CHOOSE m \in S : \A n \in S : n <= m

Min(S) == CHOOSE m \in S : \A n \in S : m <= n

\* The index of the first character of the statement that ends at semicolon i.
FirstOf(inp, i) ==
    LET from == Max({j \in Semicolons(inp) : j < i} \cup {0}) + 1
    IN IF inp[from] = " " THEN from + 1 ELSE from

WellFormedAt(inp, i) == SubSeq(inp, FirstOf(inp, i), i) \in GoodSources

\* The input with its malformed statements blanked out.
WellFormedOnly(inp) ==
    [j \in 1..Len(inp) |->
        IF WellFormedAt(inp, Min({i \in Semicolons(inp) : i >= j})) THEN inp[j] ELSE " "]

RECURSIVE IsSubsequence(_, _)
IsSubsequence(a, b) ==
    IF a = <<>> THEN TRUE
    ELSE IF b = <<>> THEN FALSE
    ELSE IF a[1] = b[1] THEN IsSubsequence(Tail(a), Tail(b))
    ELSE IsSubsequence(a, Tail(b))

HasMalformed(inp) == \E i \in Semicolons(inp) : ~WellFormedAt(inp, i)

TokenTypes ==
    {IDENT, INT, ASSIGN, COMMA, SEMICOLON, COLON, LPAREN, RPAREN, LBRACE, RBRACE,
     RBRACKET, STRING_T, IN_T}

\* C12: an expectPeek(t) that fails records "expected t, got <peek type>"
\* at the peek token's position (when the error cap leaves room) and
\* consumes no token; and a statement during whose parse an expectPeek
\* failed is not added to the Program.
C12_FailedExpectPeekAborts ==
    /\ [](mode = "parse" =>
            \A t \in TokenTypes :
                ~peekTokenIs(parser, t) =>
                    LET e == expectPeek(parser, t)
                    IN /\ ~e.ok
                       /\ e.p.curToken = parser.curToken
                       /\ e.p.peekToken = parser.peekToken
                       /\ e.p.l = parser.l
                       /\ e.p.consumed = parser.consumed
                       /\ Len(parser.errors) < MaxErrors =>
                             e.p.errors = Append(parser.errors,
                                 ParseError("expected " \o t \o ", got "
                                                \o parser.peekToken.type,
                                            parser.peekToken.line,
                                            parser.peekToken.column)))
    /\ [][(mode = "parse" /\ parser'.refused > parser.refused) => program' = program]_vars

\* C13: once NextToken has returned an EOF token, every later call returns
\* that same token (EOF, empty literal, same line and column): the tokens
\* returned after it equal it, and the call leaves the lexer as it was, so
\* the next call returns it again.
C13_EOFRepeats ==
    mode = "lex" =>
        \A i \in 1..Len(toks) :
            toks[i].type = EOF =>
                /\ toks[i].literal = ""
                /\ \A j \in i..Len(toks) : toks[j] = toks[i]
                /\ i = Len(toks) => NextToken(lx) = [l |-> lx, tok |-> toks[i]]

\* NextToken was called twice after the last token of a non-empty input.
C13_Witness ==
    /\ mode = "lex"
    /\ Len(toks) >= 3
    /\ toks[Len(toks) - 2].type # EOF
    /\ toks[Len(toks) - 1].type = EOF
    /\ toks[Len(toks)].type = EOF

\* C14: evalProgram evaluates the statements one after the other, each in
\* the state the one before it left, starting with the first; when no
\* Error occurs it evaluates all of them and returns what the last one
\* evaluated to, and NULL for a program without statements.
C14_ProgramYieldsLastStatement ==
    /\ [](mode = "eval" =>
            /\ idx \in 1..(Len(program) + 1)
            /\ (phase = "done" /\ es.firstErr = None /\ ~es.panicked) =>
                  /\ idx = Len(program) + 1
                  /\ program = <<>> => es.res = NULL)
    /\ [][(mode = "eval" /\ es'.firstErr = None /\ ~es'.panicked) =>
            /\ idx' \in {idx, idx + 1}
            /\ idx' = idx + 1 => es' = Eval(program[idx], RootEnv, es)
            /\ idx' = idx => (phase' = "done" /\ es'.res = es.res)]_vars

\* A program of several statements, the last of which is an expression
\* with a value of its own, was evaluated to the end without an Error.
C14_Witness ==
    /\ mode = "eval" /\ phase = "done"
    /\ es.firstErr = None /\ ~es.panicked
    /\ Len(program) >= 2
    /\ program[1].k = "AssignmentStatement"
    /\ program[Len(program)] = ExprS(Bin(Id("x"), "*", IntL(5)))
    /\ es.res = Integer(5)
    /\ es.out # <<>>

\* C15: Get(name) on a frame yields the binding of the nearest frame of its
\* chain that binds name, and not-found when none does.  SetLocal(name,
\* val) writes the binding in the frame itself and nothing else: the frame
\* then reads val, and every frame whose chain does not pass through it
\* (its outer frames among them) reads what it read before.
C15_GetNearestSetLocalOwn ==
    /\ (mode = "env" /\ last.op = "Get") =>
          LET b == Binders(frames, last.env, last.name)
          IN last.got = IF b = <<>> THEN [obj |-> None, ok |-> FALSE]
                        ELSE [obj |-> frames[Head(b)].store[last.name], ok |-> TRUE]
    /\ (mode = "env" /\ last.op = "SetLocal") =>
          /\ Len(frames) = Len(last.before)
          /\ \A f \in 1..Len(frames) : f # last.env => frames[f] = last.before[f]
          /\ frames[last.env].outer = last.before[last.env].outer
          /\ DOMAIN frames[last.env].store
                = DOMAIN last.before[last.env].store \cup {last.name}
          /\ \A n \in DOMAIN frames[last.env].store :
                frames[last.env].store[n] = IF n = last.name THEN last.val
                                            ELSE last.before[last.env].store[n]
          /\ Get(frames, last.env, last.name) = [obj |-> last.val, ok |-> TRUE]
          /\ \A f \in 1..Len(frames), n \in Names :
                (\A k \in 1..Len(Chain(frames, f)) : Chain(frames, f)[k] # last.env) =>
                    Get(frames, f, n) = Get(last.before, f, n)

\* SetLocal on an inner frame whose outer frame binds the name to another
\* value: the inner frame reads the new value, the outer one the old.
C15_WitnessSetLocal ==
    /\ mode = "env" /\ last.op = "SetLocal"
    /\ last.before[last.env].outer # 0
    /\ ~Bound(last.before, last.env, last.name)
    /\ LET outer == last.before[last.env].outer
       IN /\ Bound(last.before, outer, last.name)
          /\ last.before[outer].store[last.name] # last.val
          /\ Get(frames, outer, last.name)
                = [obj |-> last.before[outer].store[last.name], ok |-> TRUE]
    /\ Get(frames, last.env, last.name) = [obj |-> last.val, ok |-> TRUE]

\* C16 (as claimed): a function declaration evaluated in an environment
\* binds the name in that environment's own frame, leaves every other
\* frame as it was, captures that environment and evaluates to NULL.
C16_DeclarationBindsCurrentScope ==
    mode = "eval" =>
        \A k \in 1..Len(es.decls) :
            /\ es.decls[k].own
            /\ es.decls[k].othersSame
            /\ es.decls[k].captured = es.decls[k].env
            /\ es.decls[k].result = NULL

\* fn f() { return a; }  fn g() { a = 1; return f(); }  g();
ScopeProgram ==
    <<Fn("f", <<>>, <<Return(Id("a"))>>),
      Fn("g", <<>>, <<Asg("a", IntL(1)), Return(Call(Id("f"), <<>>))>>),
      ExprS(Call(Id("g"), <<>>))>>

\* C17: every call of a user function runs its body in a frame created by
\* that call, whose outer frame is the environment the function captured
\* at its declaration; no two calls share a frame; and a name bound only
\* in the caller's frame is not found in the body.
C17_CallsAreLexicallyScoped ==
    mode = "eval" =>
        /\ \A k \in 1..Len(es.done) :
              /\ es.done[k].fresh
              /\ es.done[k].outer = es.done[k].captured
              /\ \A j \in 1..Len(es.done) : j # k => es.done[j].frame # es.done[k].frame
        /\ \A k \in 1..Len(es.calls) :
              /\ es.calls[k].fresh
              /\ es.calls[k].outer = es.calls[k].captured
        /\ (program = ScopeProgram /\ Evaluated(3)) =>
              /\ Type(es.res) = ERROR_OBJ
              /\ es.res.msg = "undefined variable: a"

\* A function was called from the body of another function whose frame
\* binds a name of its own, and a function declared inside a body was
\* called: the callee's frame hangs off a frame other than the caller's in
\* the first case and other than the global one in the second.
C17_Witness ==
    /\ mode = "eval" /\ phase = "done"
    /\ \/ /\ program = ScopeProgram
          /\ \E k \in 1..Len(es.done) :
                /\ es.done[k].caller # es.done[k].captured
                /\ es.done[k].outer = RootEnv
                /\ Bound(es.heap, es.done[k].caller, "a")
       \/ /\ program \in ClosurePrograms
          /\ \E k, j \in 1..Len(es.done) :
                /\ es.done[k].outer = es.done[j].frame
                /\ es.done[k].outer # RootEnv


\* C18: a call expression evaluates its callee first and then its
\* arguments from left to right, and applies the function last; when an
\* argument yields an Error, no later argument is evaluated, the function
\* is not applied, and the call's value is that Error.
C18_CallEvaluationOrder ==
    mode = "eval" =>
        \A k \in 1..Len(es.callx) :
            LET c == es.callx[k]
            IN /\ Len(c.events) \in 1..(c.nargs + 2)
               /\ c.events = [j \in 1..Len(c.events) |-> j - 1]
               /\ (c.errAt > 0 /\ ~c.panicked) =>
                     /\ Len(c.events) = c.errAt + 1
                     /\ ~c.user
                     /\ isError(c.argErr)
                     /\ c.result = c.argErr
               /\ (c.errAt = 0 /\ ~c.panicked /\ ~isError(c.result)) =>
                     Len(c.events) = c.nargs + 2

\* f(u, print(1)) for a declared f: the first argument is an Error, nothing
\* was printed, and the call's value is that Error.
C18_Witness ==
    /\ mode = "eval"
    /\ program \in CallPrograms
    /\ program[3] = ExprS(Call(Id("f"), <<Id("u"), Call(Id("print"), <<IntL(1)>>)>>))
    /\ Evaluated(3)
    /\ Len(es.callx) = 1
    /\ es.callx[1].errAt = 1
    /\ es.out = <<>>
    /\ es.res.msg = "undefined variable: u"

\* C19: a call of a declared function with a number of arguments other
\* than its number of parameters yields the Error "wrong number of
\* arguments: expected P, got N"; no frame is created, no binding changes,
\* and the body is not evaluated.
C19_WrongArgumentCount ==
    mode = "eval" =>
        \A k \in 1..Len(es.callx) :
            LET c == es.callx[k]
            IN (c.user /\ c.nparams # c.nargs) =>
                  /\ isError(c.result)
                  /\ c.result.msg = "wrong number of arguments: expected "
                                     \o ToString(c.nparams) \o ", got "
                                     \o ToString(c.nargs)
                  /\ c.heapSame
                  /\ c.bodySkipped

\* x = 5; fn f(a) { print(4); x = 9; } f(print(1), print(2)): both
\* arguments printed, the body did not, and x is still 5.
C19_Witness ==
    /\ mode = "eval"
    /\ program \in CallPrograms
    /\ Evaluated(3)
    /\ Len(es.callx) = 3
    /\ es.callx[3].user
    /\ es.callx[3].nparams = 1
    /\ es.callx[3].nargs = 2
    /\ es.out = <<"1", "2">>
    /\ es.res.msg = "wrong number of arguments: expected 1, got 2"
    /\ es.heap[RootEnv].store["x"] = Integer(5)

\* C20: && and || evaluate both operands, the left one first; the right
\* operand is evaluated, and its output written, whenever the left one is
\* not an Error, whatever its value.
C20_LogicalOperandsBothEvaluated ==
    mode = "eval" =>
        /\ \A k \in 1..Len(es.infixes) :
              LET x == es.infixes[k]
              IN (x.op \in {"&&", "||"} /\ ~x.leftPanicked) =>
                    x.events = IF isError(x.left) THEN <<"left">>
                               ELSE <<"left", "right">>
        /\ \A k \in 1..Len(es.ix) :
              es.ix[k].events \in {<<"left">>, <<"left", "right">>}
        /\ (program \in LogicalPrograms /\ Len(es.infixes) >= 1) =>
              LET x == es.infixes[1]
              IN x.out = IF isError(x.left) THEN <<>> ELSE Append(x.outLeft, "5")

\* false && print(5) and true || print(5) have printed 5.
C20_Witness ==
    /\ mode = "eval"
    /\ program \in LogicalPrograms
    /\ \/ program[1] = ExprS(Bin(BoolL(FALSE), "&&", Call(Id("print"), <<IntL(5)>>)))
       \/ program[1] = ExprS(Bin(BoolL(TRUE), "||", Call(Id("print"), <<IntL(5)>>)))
    /\ Evaluated(1)
    /\ es.out[1] = "5"
    /\ es.infixes[1].events = <<"left", "right">>

\* C21: == and != on two values that are not both Integer, both Float or
\* both String never yield an Error: == yields TRUE exactly when the two
\* are the same object (Booleans and Null by their value, values of
\* different types never, a List or Function only with itself), and !=
\* yields the opposite.
C21_EqualityIsIdentity ==
    mode = "eval" =>
        \A k \in 1..Len(es.ops) :
            LET o == es.ops[k]
                l == o.left
                r == o.right
                same == /\ Type(l) = Type(r)
                        /\ CASE Type(l) = BOOLEAN_OBJ -> l.b = r.b
                             [] Type(l) = NULL_OBJ -> TRUE
                             [] Type(l) = BUILTIN_OBJ -> l.name = r.name
                             [] OTHER -> l.id = r.id
            IN (/\ o.op \in {"==", "!="}
                /\ ~(Type(l) = Type(r) /\ Type(l) \in {INTEGER_OBJ, FLOAT_OBJ, STRING_OBJ})) =>
                  o.result = IF (o.op = "==") = same THEN TRUE_ ELSE FALSE_

\* [1] == [1] has yielded FALSE.
C21_Witness ==
    /\ mode = "eval"
    /\ program \in OperatorPrograms
    /\ program[1] = ExprS(Bin(LstL(<<IntL(1)>>), "==", LstL(<<IntL(1)>>)))
    /\ Evaluated(1)
    /\ es.ops[1].left.elems = es.ops[1].right.elems
    /\ es.res = FALSE_

\* C22: an Integer divided by the Integer 0, and a Float divided by the
\* Float 0, is the Error "division by zero" at the position of the infix
\* expression, which is that of its left operand; the evaluation does not
\* trap.
ZeroDivision(o) ==
    /\ o.op = "/"
    /\ \/ Type(o.left) = INTEGER_OBJ /\ Type(o.right) = INTEGER_OBJ /\ o.right.i = 0
       \/ Type(o.left) = FLOAT_OBJ /\ Type(o.right) = FLOAT_OBJ /\ o.right.num = 0

C22_DivisionByZero ==
    mode = "eval" =>
        /\ \A k \in 1..Len(es.ops) :
              ZeroDivision(es.ops[k]) =>
                  /\ isError(es.ops[k].result)
                  /\ es.ops[k].result.msg = "division by zero"
        /\ program \in DivisionPrograms => ~es.panicked
        /\ (/\ program \in DivisionPrograms
            /\ Evaluated(1)
            /\ ZeroDivision(es.ops[Len(es.ops)])) =>
              /\ es.res = es.ops[Len(es.ops)].result
              /\ es.res.line = 2
              /\ es.res.column = 3

\* q = 7 / (2 - 2): the Error is at the 7, and nothing is bound or printed.
C22_Witness ==
    /\ mode = "eval"
    /\ program \in DivisionPrograms
    /\ phase = "done"
    /\ Len(es.ops) = 2
    /\ es.ops[2].left = Integer(7)
    /\ es.ops[2].right = Integer(0)
    /\ es.res.msg = "division by zero"
    /\ es.res.column = 3
    /\ ~Has(es.heap, RootEnv, "q")
    /\ es.out = <<>>

\* C23: a for loop runs its body once per element, in list order, in one
\* frame created for the loop whose outer frame is the enclosing
\* environment; binding the iteration variable writes that frame only, so
\* the enclosing environment's own binding of the name is after the loop
\* what it was before, and a variable first assigned in the body is not
\* bound outside.
IsPrefix(s, t) == Len(s) <= Len(t) /\ s = SubSeq(t, 1, Len(s))

C23_ForLoopFrame ==
    mode = "eval" =>
        /\ \A k \in 1..Len(es.loops) :
              LET c == es.loops[k]
              IN /\ c.fresh
                 /\ c.outer = c.env
                 /\ c.bindOnly
                 /\ IsPrefix(c.seen, c.elems)
                 /\ (~c.panicked /\ ~isError(c.result)) => c.seen = c.elems
                 /\ c.has = c.had
                 /\ c.now = c.val
        /\ \A k \in 1..Len(es.fx) :
              /\ es.fx[k].fresh
              /\ es.fx[k].bindOnly
              /\ IsPrefix(es.fx[k].seen, es.fx[k].elems)
        /\ (program \in LoopPrograms /\ phase = "done" /\ Len(es.loops) = 1) =>
              LET c == es.loops[1]
                  v == program[3].expr.arguments[1].value.value
                  shown == [j \in 1..Len(c.elems) |-> ToString(c.elems[j].i)]
              IN IF v = "i" /\ program[1].name.value = "i"
                 THEN es.out = Append(shown, "9")
                 ELSE /\ es.out = shown
                      /\ isError(es.res)
                      /\ es.res.msg = "undefined variable: " \o v

\* i = 9; for (i in [1, 2]) { print(i); t = i; } print(i): 1, 2 and 9 were
\* printed, and t is bound in the loop's frame only.
C23_Witness ==
    /\ mode = "eval"
    /\ program \in LoopPrograms
    /\ phase = "done"
    /\ Len(es.loops) = 1
    /\ es.loops[1].seen = <<Integer(1), Integer(2)>>
    /\ es.out = <<"1", "2", "9">>
    /\ Bound(es.heap, es.loops[1].frame, "t")
    /\ ~Has(es.heap, RootEnv, "t")
    /\ es.heap[RootEnv].store["i"] = Integer(9)

\* C24: every token NextToken returns carries the line and column of its
\* first character, the first character after the whitespace and comments
\* before it (for EOF, the place just after the last character): the line
\* is the number of newlines before it plus one, the column the number of
\* characters since the last of them, counted from 1.
NewlinesBefore(inp, off) == Cardinality({j \in 1..off : inp[j] = "\n"})

LastNewlineBefore(inp, off) == Max({0} \cup {j \in 1..off : inp[j] = "\n"})

C24_TokenPositions ==
    [][mode = "lex" =>
          LET start == Min({skipWhitespaceAndComments(lx).position, Len(input)})
              tok == toks'[Len(toks')]
          IN /\ tok.line = NewlinesBefore(input, start) + 1
             /\ tok.column = start - LastNewlineBefore(input, start) + 1]_vars

\* C25: a PipeExpression is built only for | format csv and | format
\* table.  After `x | a b; y;` has been parsed: with a = format and b a
\* format name there is no error and the first statement is the pipe
\* expression with that format; with another identifier for a the error is
\* "expected 'format' after pipe", with a = format and another identifier
\* for b it is "expected 'csv' or 'table'", and in every case but the
\* first the Program holds the statement y; alone.
YStatement ==
    ExpressionStatement(Token(IDENT, "y", 1, 1), Identifier(Token(IDENT, "y", 1, 1), "y"))

Unplaced(node) ==
    IF node.k = "ExpressionStatement"
    THEN ExpressionStatement([node.tok EXCEPT !.line = 1, !.column = 1],
                             IF node.expr.k = "Identifier"
                             THEN Identifier([node.expr.tok EXCEPT !.line = 1, !.column = 1],
                                             node.expr.value)
                             ELSE node.expr)
    ELSE node

C25_PipeNeedsFormat ==
    (mode = "parse" /\ phase = "done") =>
        \A a \in PipeWords, b \in FormatWords :
            input = Source(PipeStatement(a, b)) =>
                IF a = "format" /\ b \in {"csv", "table"}
                THEN /\ parser.errors = <<>>
                     /\ Len(program) = 2
                     /\ program[1].expr.k = "PipeExpression"
                     /\ program[1].expr.format = b
                ELSE /\ parser.errors # <<>>
                     /\ a = "fmt" =>
                           parser.errors[1].message = "expected 'format' after pipe, got \"fmt\""
                     /\ (a = "format" /\ b = "xml") =>
                           parser.errors[1].message = "expected 'csv' or 'table', got \"xml\""
                     /\ Len(program) = 1
                     /\ Unplaced(program[1]) = YStatement

\* C26: the tree ParseProgram builds renders with the parentheses of the
\* grammar's precedence: of two binary operators in a row the first takes
\* the middle operand unless the second is of a higher level (equality,
\* comparison, + -, * /, from low to high), a unary operator takes its
\* operand before any binary operator does, and unary operators nest to the
\* right.
Binding(o) ==
    CASE o \in {"==", "!="} -> 1
      [] o \in {"<", ">", "<="} -> 2
      [] o \in {"+", "-"} -> 3
      [] o \in {"*", "/"} -> 4

Rendered(text) ==
    /\ parser.errors = <<>>
    /\ Len(program) = 1
    /\ NodeString(program[1]) = text

C26_PrecedenceAndAssociativity ==
    (mode = "parse" /\ phase = "done") =>
        /\ \A o1 \in BinaryWords, o2 \in BinaryWords :
              input = Source(<<"a", o1, "b", o2, "c", ";">>) =>
                  Rendered(IF Binding(o1) >= Binding(o2)
                           THEN "((a " \o o1 \o " b) " \o o2 \o " c)"
                           ELSE "(a " \o o1 \o " (b " \o o2 \o " c))")
        /\ \A u \in UnaryWords, o \in BinaryWords :
              /\ input = Source(<<u, "a", o, "b", ";">>) =>
                    Rendered("((" \o u \o "a) " \o o \o " b)")
              /\ input = Source(<<"a", o, u, "b", ";">>) =>
                    Rendered("(a " \o o \o " (" \o u \o "b))")
        /\ \A u1 \in UnaryWords, u2 \in UnaryWords :
              input = Source(<<u1, u2, "a", ";">>) =>
                  Rendered("(" \o u1 \o "(" \o u2 \o "a))")
        /\ input = Source(LongExpression) =>
              Rendered("(((a + (b * c)) + (d / e)) - f)")

\* a + b * c + d / e - f; has been parsed.
C26_Witness ==
    /\ mode = "parse"
    /\ phase = "done"
    /\ input = Source(LongExpression)
    /\ Len(program) = 1
    /\ NodeString(program[1]) = "(((a + (b * c)) + (d / e)) - f)"

\* C27: synchronize only moves forward through the tokens, by at least one
\* unless it is called at EOF, and returns at EOF, at a keyword that starts
\* a statement, or at the token after a semicolon it has just consumed.
RECURSIVE Advance(_, _)
Advance(p, n) == IF n = 0 THEN p ELSE Advance(nextToken(p), n - 1)

C27_SynchronizePostcondition ==
    mode = "parse" =>
        \A k \in 1..Len(parser.syncs) :
            LET from == parser.syncs[k].from
                to == parser.syncs[k].to
                n == to.consumed - from.consumed
            IN /\ n >= 0
               /\ to = Advance(from, n)
               /\ n = 0 <=> from.curToken.type = EOF
               /\ \/ to.curToken.type = EOF
                  \/ to.curToken.type \in StatementStarts
                  \/ n >= 1 /\ Advance(from, n - 1).curToken.type = SEMICOLON

\* synchronize consumed two tokens or more, the last of them a semicolon,
\* and returned at a token that is neither EOF nor a keyword.
C27_Witness ==
    /\ mode = "parse"
    /\ \E k \in 1..Len(parser.syncs) :
          LET from == parser.syncs[k].from
              to == parser.syncs[k].to
              n == to.consumed - from.consumed
          IN /\ n >= 2
             /\ to.curToken.type \notin StatementStarts \cup {EOF}
             /\ Advance(from, n - 1).curToken.type = SEMICOLON

\* C28: what Eval returns for a Program is never a ReturnValue wrapper,
\* whether a return statement was executed at top level, inside a top-level
\* if block, or not at all.
C28_NoReturnValueEscapes ==
    (mode = "eval" /\ phase = "done" /\ ~es.panicked) =>
        Type(es.res) # RETURN_VALUE_OBJ

\* C29: an EOF token is returned only once every byte of the input has been
\* consumed, also when the input holds a zero byte: when the last token
\* returned is EOF, the lexer's position is at or past the end of the input.
C29_EOFOnlyAtEndOfInput ==
    (mode = "lex" /\ Len(toks) >= 1 /\ toks[Len(toks)].type = EOF) =>
        lx.position >= Len(input)

\* The statements of a sequence of statements and of the blocks in them.
RECURSIVE Contained(_)
Contained(stmts) ==
    UNION {{stmts[j]} \cup
           (CASE stmts[j].k = "IfStatement" ->
                    Contained(stmts[j].cons.stmts) \cup
                    (IF stmts[j].alt = Nil THEN {} ELSE Contained(stmts[j].alt.stmts))
              [] stmts[j].k \in {"ForStatement", "FunctionDeclaration"} ->
                    Contained(stmts[j].body.stmts)
              [] OTHER -> {}) : j \in 1..Len(stmts)}

\* C30: no statement of the Program, at top level or inside a block, is one
\* during whose parsing an error was recorded: a statement with an error in
\* it, in a call's argument list or a function's parameter list too, is
\* dropped and not added in a truncated form.
C30_KeptStatementsParsedCleanly ==
    mode = "parse" => Contained(program) \cap parser.flawed = {}

====
